---- MODULE Spec2Model ----
(***************************************************************************)
(* Record groups of a plugin file (Mopy/bash/brec/record_groups.py):       *)
(* reading, merging, updating, pruning and dumping groups of records.      *)
(*                                                                         *)
(* A record is a value [fid, ignored, hard, soft, ver, sz, oid]:           *)
(*   fid     the Unique Record Key (0 stands for Python's None),           *)
(*   ignored flags1.ignored,                                               *)
(*   hard    masters the record references that mergeFilter cannot drop,   *)
(*   soft    masters referenced only by entries mergeFilter can drop,      *)
(*   ver     the payload (what a reader of the record sees),               *)
(*   sz      the payload size getSize() reports,                           *)
(*   oid     the identity of the Python object holding the record.         *)
(* A Python dict is a sequence of its values in insertion order.           *)
(***************************************************************************)
EXTENDS Integers, Sequences, FiniteSets

VARIABLES
    inBytes,  \* the bytes a group kept as a blob was read from
    g,        \* the group operated on (the destination of merge/update)
    s,        \* the source group of merge/update
    mergeIds, \* the id set handed to merge_records / updateRecords /
              \* keepRecords of a composite, which change it in place
    opn,      \* name of the last operation
    arg,      \* arguments of the last operation
    pre,      \* [g, s, ids]: the state the last operation started from
    out,      \* what the last dump wrote (sequence of tokens)
    ret,      \* return value of the last operation
    err       \* "" or the exception the last operation raised

vars == <<inBytes, g, s, mergeIds, opn, arg, pre, out, ret, err>>

----------------------------------------------------------------------------
(* Bounds *)
MaxKey == 2
MaxLoad == 3

Keys == 1..MaxKey

\* No record key is larger than this
MaxFid == 2 * MaxKey + 5

(* RecordHeader.rec_header_size: the size of a record or group header *)
rec_header_size == 24

Masters == {"Base.esm", "Other.esp"}

----------------------------------------------------------------------------
(* Generic helpers on sequences used as insertion-ordered dicts *)

SeqKeys(q) == {q[i].fid : i \in 1..Len(q)}

HasKey(q, k) == \E i \in 1..Len(q) : q[i].fid = k

IndexOf(q, k) == CHOOSE i \in 1..Len(q) : q[i].fid = k

\* d[k] = v for a dict: an existing key keeps its position, a new one is
\* appended
DictSet(q, v) ==
    IF HasKey(q, v.fid)
    THEN [i \in 1..Len(q) |-> IF q[i].fid = v.fid THEN v ELSE q[i]]
    ELSE Append(q, v)

DictGet(q, k) == q[IndexOf(q, k)]

\* del d[k]
DictDel(q, k) == SelectSeq(q, LAMBDA v : v.fid # k)

RECURSIVE SumSeq(_)
SumSeq(q) == IF q = <<>> THEN 0 ELSE Head(q) + SumSeq(Tail(q))

RECURSIVE InsertSorted(_, _)
InsertSorted(q, v) ==
    IF q = <<>> THEN <<v>>
    ELSE IF v.fid < Head(q).fid THEN <<v>> \o q
    ELSE <<Head(q)>> \o InsertSorted(Tail(q), v)

\* bolt.dict_sort: the items of a dict sorted by key
RECURSIVE dict_sort(_)
dict_sort(q) ==
    IF q = <<>> THEN <<>>
    ELSE InsertSorted(dict_sort(SubSeq(q, 1, Len(q) - 1)), q[Len(q)])

----------------------------------------------------------------------------
(* Records *)

None == [fid |-> 0, ignored |-> FALSE, hard |-> {}, soft |-> {},
         ver |-> 0, sz |-> 0, oid |-> 0]

Rec(k, ign, h, sf, v, z, o) ==
    [fid |-> k, ignored |-> ign, hard |-> h, soft |-> sf,
     ver |-> v, sz |-> z, oid |-> o]

\* record.getTypeCopy(): an independent copy: same content, a new object
\* (the identities of loaded objects are at most 2 * MaxFid, those of copies
\* are larger)
getTypeCopy(r) == [r EXCEPT !.oid = r.oid + 2 * MaxFid]

\* record.mergeFilter(loadSet): drops the droppable references to masters
\* that are not loaded
mergeFilter(r, loadSet) == [r EXCEPT !.soft = r.soft \cap loadSet]

\* record.updateMasters(masterset.add): the masters the record references
RecMasters(r) == r.hard \cup r.soft

\* Tokens written to the output stream / found in a raw blob:
\*   "GRUP" a group header (sz is its size field, fid its label),
\*   "REC"  a record: header and payload of sz bytes.
Tok(t, k, z, v) == [t |-> t, fid |-> k, sz |-> z, ver |-> v]

\* record.dump(out)
RecDump(r) == Tok("REC", r.fid, r.sz, r.ver)

TokBytes(tk) == IF tk.t = "GRUP" THEN rec_header_size
                ELSE rec_header_size + tk.sz

RECURSIVE ByteLen(_)
ByteLen(q) == IF q = <<>> THEN 0 ELSE TokBytes(Head(q)) + ByteLen(Tail(q))

----------------------------------------------------------------------------
(* MobBase / MobObjects: a flat group                                      *)
(*   cls        "MobBase" (never unpacked) or "TopGrup" (a MobObjects)     *)
(*   changed    the dirty flag                                             *)
(*   size       header.size as read                                        *)
(*   data       the raw blob (sequence of tokens), <<>> if empty           *)
(*   hasData    FALSE when self.data is None                               *)
(*   numRecords the cached count, -1 when not yet counted                  *)
(*   recs       id_records                                                 *)
(***************************************************************************)
Mob(cls, chg, size, data, hasData, recs) ==
    [cls |-> cls, changed |-> chg, size |-> size, data |-> data,
     hasData |-> hasData, numRecords |-> -1, recs |-> recs]

\* MobObjects.empty_mob
empty_mob == Mob("TopGrup", TRUE, 0, <<>>, FALSE, <<>>)

\* _AMobBase.setChanged
setChanged(gr, value) == [gr EXCEPT !.changed = value]

\* MobObjects.getRecord: None on a miss
MobObjects_getRecord(gr, k) ==
    IF HasKey(gr.recs, k) THEN DictGet(gr.recs, k) ELSE None

\* MobObjects.setRecord: returns [g, err]
MobObjects_setRecord_nocopy(gr, record, do_copy, loading) ==
    IF loading /\ HasKey(gr.recs, record.fid)
    THEN [g |-> gr, err |-> "ModError"]
    ELSE [g |-> [gr EXCEPT !.recs = DictSet(gr.recs, record)], err |-> ""]

MobObjects_setRecord_dupok(gr, record, do_copy, loading) ==
    [g |-> [gr EXCEPT !.recs = DictSet(gr.recs,
                IF loading \/ ~do_copy THEN record ELSE getTypeCopy(record))],
     err |-> ""]

MobObjects_setRecord(gr, record, do_copy, loading) ==
    IF loading /\ HasKey(gr.recs, record.fid)
    THEN [g |-> gr, err |-> "ModError"]
    ELSE [g |-> [gr EXCEPT !.recs = DictSet(gr.recs,
                IF loading \/ ~do_copy THEN record ELSE getTypeCopy(record))],
          err |-> ""]

\* MobObjects._load_rec_group over the headers of the input stream ins
\* (each element [sig, rec]; sig "GRUP" is a nested group header); stops at
\* the first error, before the trailing setChanged().
RECURSIVE LoadLoop(_, _, _)
LoadLoop(gr, ins, accepted) ==
    IF ins = <<>> THEN [g |-> setChanged(gr, TRUE), err |-> ""]
    ELSE IF Head(ins).sig \notin accepted
         THEN [g |-> gr, err |-> "ModError"]
         ELSE LET r == MobObjects_setRecord(gr, Head(ins).rec, TRUE, TRUE)
              IN IF r.err # "" THEN r
                 ELSE LoadLoop(r.g, Tail(ins), accepted)

MobObjects_load_rec_group(gr, ins, accepted) == LoadLoop(gr, ins, accepted)

\* The bytes of an input stream
StreamToks(ins) ==
    [i \in 1..Len(ins) |->
        IF ins[i].sig = "GRUP" THEN Tok("GRUP", 0, 0, 0)
        ELSE RecDump(ins[i].rec)]

\* The group header read before the blob: its size field covers the header
\* and the blob
HeaderSize(ins) == rec_header_size + ByteLen(StreamToks(ins))

\* MobBase.__init__ (cls "MobBase") and MobObjects.__init__ -> TopGrup
\* (cls "TopGrup") reading from an input stream.
\*   typed      loadFactory.sig_to_type knows the group's record type
\*   do_unpack  analyse the blob instead of keeping it
MobBase_init(cls, ins, do_unpack, typed, accepted) ==
    LET g0 == Mob(cls, FALSE, HeaderSize(ins), <<>>, FALSE, <<>>)
    IN IF cls = "TopGrup" /\ ~typed
       THEN [g |-> g0, err |-> ""]            \* skip_blob, ins = None
       ELSE IF ~do_unpack \/ cls = "MobBase"
       THEN [g |-> [g0 EXCEPT !.data = StreamToks(ins), !.hasData = TRUE],
             err |-> ""]
       ELSE LET r == MobObjects_load_rec_group(g0, ins, accepted)
            IN IF r.err # "" THEN r
               ELSE [g |-> setChanged(r.g, TRUE), err |-> ""]

\* All records, the ignore-flagged ones too
MobObjects_getActiveRecords_all(gr) == gr.recs

\* MobObjects.getActiveRecords
MobObjects_getActiveRecords(gr) == SelectSeq(gr.recs, LAMBDA r : ~r.ignored)

\* MobBase.getNumRecords / MobObjects.getNumRecords: [g, ret, err]
CountToks(data, t) == Cardinality({i \in 1..Len(data) : data[i].t = t})

B2N(b) == IF b THEN 1 ELSE 0

MobBase_getNumRecords(gr, includeGroups) ==
    IF gr.changed THEN [g |-> gr, ret |-> 0, err |-> "AbstractError"]
    ELSE IF gr.numRecords > -1
    THEN [g |-> gr, ret |-> gr.numRecords, err |-> ""]
    ELSE IF ~gr.hasData \/ gr.data = <<>>
    THEN [g |-> [gr EXCEPT !.numRecords = 0], ret |-> 0, err |-> ""]
    ELSE LET numSubRecords == CountToks(gr.data, "REC")
             num_groups == 1 + CountToks(gr.data, "GRUP")
             n == numSubRecords + B2N(includeGroups) * num_groups
         IN [g |-> [gr EXCEPT !.numRecords = n], ret |-> n, err |-> ""]

MobObjects_getNumRecords(gr, includeGroups) ==
    LET n0 == Len(gr.recs)
        n == IF n0 > 0 THEN n0 + B2N(includeGroups) ELSE 0
    IN [g |-> [gr EXCEPT !.numRecords = n], ret |-> n, err |-> ""]

getNumRecords(gr, includeGroups) ==
    IF gr.cls = "MobBase" THEN MobBase_getNumRecords(gr, includeGroups)
    ELSE MobObjects_getNumRecords(gr, includeGroups)

\* MobBase.getSize / MobObjects.getSize: [ret, err]
MobBase_getSize(gr) ==
    IF gr.changed THEN [ret |-> 0, err |-> "AbstractError"]
    ELSE [ret |-> gr.size, err |-> ""]

MobObjects_getSize_noheader(gr) ==
    IF ~gr.changed THEN [ret |-> gr.size, err |-> ""]
    ELSE IF gr.recs = <<>> THEN [ret |-> 0, err |-> ""]
    ELSE [ret |-> SumSeq([i \in 1..Len(gr.recs) |->
                            rec_header_size + gr.recs[i].sz]),
          err |-> ""]

MobObjects_getSize(gr) ==
    IF ~gr.changed THEN [ret |-> gr.size, err |-> ""]
    ELSE IF gr.recs = <<>> THEN [ret |-> 0, err |-> ""]
    ELSE LET hsize == rec_header_size
             recs_size == SumSeq([i \in 1..Len(gr.recs) |->
                                     hsize + gr.recs[i].sz])
         IN [ret |-> hsize + recs_size, err |-> ""]

getSize(gr) ==
    IF gr.cls = "MobBase" THEN MobBase_getSize(gr) ELSE MobObjects_getSize(gr)

\* MobObjects._sort_group
MobObjects_sort_group(gr) == [gr EXCEPT !.recs = dict_sort(gr.recs)]

\* MobObjects._mob_header: the header of a changed group, size recomputed
MobObjects_mob_header(gr) == Tok("GRUP", 0, MobObjects_getSize(gr).ret, 0)

\* header.pack_head() of the header that was read
PackHead(gr) == Tok("GRUP", 0, gr.size, 0)

\* MobBase.dump: [g, out, err]
MobBase_dump_always(gr) ==
    IF gr.changed THEN [g |-> gr, out |-> <<>>, err |-> "AbstractError"]
    ELSE [g |-> gr, out |-> <<PackHead(gr)>> \o gr.data, err |-> ""]

MobBase_dump(gr) ==
    IF gr.changed THEN [g |-> gr, out |-> <<>>, err |-> "AbstractError"]
    ELSE LET g1 == IF gr.numRecords = -1
                   THEN MobBase_getNumRecords(gr, TRUE).g ELSE gr
         IN IF g1.numRecords > 0
            THEN [g |-> g1, out |-> <<PackHead(g1)>> \o g1.data, err |-> ""]
            ELSE [g |-> g1, out |-> <<>>, err |-> ""]

\* MobObjects.dump: [g, out, err]
RecsDump(recs) == [i \in 1..Len(recs) |-> RecDump(recs[i])]

MobObjects_dump_nosort(gr) ==
    IF ~gr.changed
    THEN IF gr.hasData
         THEN [g |-> gr, out |-> <<PackHead(gr)>> \o gr.data, err |-> ""]
         ELSE [g |-> gr, out |-> <<PackHead(gr)>>, err |-> "TypeError"]
    ELSE IF gr.recs = <<>> THEN [g |-> gr, out |-> <<>>, err |-> ""]
    ELSE [g |-> gr, out |-> <<MobObjects_mob_header(gr)>> \o RecsDump(gr.recs),
          err |-> ""]

MobObjects_dump(gr) ==
    IF ~gr.changed
    THEN IF gr.hasData
         THEN [g |-> gr, out |-> <<PackHead(gr)>> \o gr.data, err |-> ""]
         ELSE \* out.write(None) after the header was written
              [g |-> gr, out |-> <<PackHead(gr)>>, err |-> "TypeError"]
    ELSE IF gr.recs = <<>> THEN [g |-> gr, out |-> <<>>, err |-> ""]
    ELSE LET hd == MobObjects_mob_header(gr)
             g1 == MobObjects_sort_group(gr)
         IN [g |-> g1, out |-> <<hd>> \o RecsDump(g1.recs), err |-> ""]

dump(gr) ==
    IF gr.cls = "MobBase" THEN MobBase_dump(gr) ELSE MobObjects_dump(gr)

\* MobObjects.keepRecords
MobObjects_keepRecords_lazy(gr, p_keep_ids) ==
    LET kept == SelectSeq(gr.recs, LAMBDA r : r.fid \in p_keep_ids)
    IN IF kept = gr.recs THEN gr ELSE setChanged([gr EXCEPT !.recs = kept], TRUE)

MobObjects_keepRecords(gr, p_keep_ids) ==
    setChanged([gr EXCEPT !.recs =
                   SelectSeq(gr.recs, LAMBDA r : r.fid \in p_keep_ids)], TRUE)

\* MobObjects._bad_form (None)
bad_form == 0

\* MobObjects.updateRecords: [g, ids]
RECURSIVE UpdateLoop(_, _, _)
UpdateLoop(active, gr, ids) ==
    IF active = <<>> THEN [g |-> gr, ids |-> ids]
    ELSE LET record == Head(active)
         IN IF HasKey(gr.recs, record.fid)
            THEN UpdateLoop(Tail(active),
                            MobObjects_setRecord(gr, record, TRUE, FALSE).g,
                            ids \ {record.fid})
            ELSE UpdateLoop(Tail(active), gr, ids)

MobObjects_updateRecords_all(gr, srcBlock, ids) ==
    UpdateLoop(srcBlock.recs, gr, ids)

MobObjects_updateRecords(gr, srcBlock, ids) ==
    UpdateLoop(MobObjects_getActiveRecords(srcBlock), gr, ids)

\* MobObjects.merge_records: [g, s, ids, err]
\*   filtered is the dict that replaces block.id_records at the end
RECURSIVE MergeLoop(_, _, _, _, _, _, _)
MergeLoop(active, gr, filtered, ids, loadSet, iiSkipMerge, doFilter) ==
    IF active = <<>> THEN [g |-> gr, filtered |-> filtered, ids |-> ids]
    ELSE LET rest == Tail(active)
             src_rec == IF doFilter THEN mergeFilter(Head(active), loadSet)
                        ELSE Head(active)
         IN IF Head(active).fid = bad_form
            THEN MergeLoop(rest, gr, filtered, ids, loadSet, iiSkipMerge,
                           doFilter)
            ELSE IF doFilter /\ ~(RecMasters(src_rec) \subseteq loadSet)
            THEN MergeLoop(rest, gr, filtered, ids, loadSet, iiSkipMerge,
                           doFilter)
            ELSE IF iiSkipMerge
            THEN MergeLoop(rest, gr, DictSet(filtered, src_rec), ids, loadSet,
                           iiSkipMerge, doFilter)
            ELSE MergeLoop(rest,
                           MobObjects_setRecord(gr, src_rec, TRUE, FALSE).g,
                           DictSet(filtered, src_rec), ids \cup {src_rec.fid},
                           loadSet, iiSkipMerge, doFilter)

\* A merge that appends the copies instead of storing them under their key
MobObjects_merge_records_append(gr, block, loadSet, ids, iiSkipMerge, doFilter) ==
    [g |-> [gr EXCEPT !.recs =
                @ \o [i \in 1..Len(MobObjects_getActiveRecords(block)) |->
                         getTypeCopy(MobObjects_getActiveRecords(block)[i])]],
     s |-> [block EXCEPT !.recs = MobObjects_getActiveRecords(block)],
     ids |-> ids \cup SeqKeys(MobObjects_getActiveRecords(block)),
     err |-> ""]

MobObjects_merge_records(gr, block, loadSet, ids, iiSkipMerge, doFilter) ==
    LET r == MergeLoop(MobObjects_getActiveRecords(block), gr, <<>>, ids,
                       loadSet, iiSkipMerge, doFilter)
    IN [g |-> r.g, s |-> [block EXCEPT !.recs = r.filtered], ids |-> r.ids,
        err |-> ""]

----------------------------------------------------------------------------
(* _Nested / _ComplexRec / TopComplexGrup: a DIAL with its INFO children   *)
(* and the DIAL top group. A MobDial is [fid, dial, infos, changed]:       *)
(*   fid     the key the top group's id_records holds the block under,     *)
(*   dial    the master record (None when absent),                         *)
(*   infos   _mob_objects[7], the children group (a MobObjects),           *)
(*   changed the dirty flag.                                               *)
(***************************************************************************)
children_mob(recs) == Mob("_DialChildren", TRUE, 0, <<>>, FALSE, recs)

MobDial(k, dial, infos, chg) ==
    [fid |-> k, dial |-> dial, infos |-> infos, changed |-> chg]

\* _Nested._stray_recs: the extra records that are present
Nested_stray_recs(c) == IF c.dial # None THEN <<c.dial>> ELSE <<>>

\* _Nested.iter_records
Nested_iter_records(c) == Nested_stray_recs(c) \o c.infos.recs

\* _AMobBase.updateMasters over a sequence of records
SeqMasters(q) == UNION {RecMasters(q[i]) : i \in 1..Len(q)}

\* _Nested.merge_records: [d, sb, ids]; the only extra record is 'dial'
Nested_merge_records(d, sb, loadSet, ids, iiSkipMerge, doFilter) ==
    LET src_rec == IF doFilter THEN mergeFilter(sb.dial, loadSet) ELSE sb.dial
        present == sb.dial # None /\ ~sb.dial.ignored
        dropped == present /\ doFilter
                   /\ ~(RecMasters(src_rec) \subseteq loadSet)
        copied == present /\ ~dropped /\ ~iiSkipMerge
        sb1 == IF dropped THEN [sb EXCEPT !.dial = None]
               ELSE IF present THEN [sb EXCEPT !.dial = src_rec]
               ELSE sb
        d1 == IF copied THEN [d EXCEPT !.dial = getTypeCopy(src_rec)] ELSE d
        ids1 == IF copied THEN ids \cup {src_rec.fid} ELSE ids
        cm == MobObjects_merge_records(d1.infos, sb1.infos, loadSet, ids1,
                                       iiSkipMerge, doFilter)
    IN [d |-> [d1 EXCEPT !.infos = cm.g], sb |-> [sb1 EXCEPT !.infos = cm.s],
        ids |-> cm.ids]

\* _ComplexRec.merge_records: [d, sb, ids]. The method body runs first; the
\* parent's merge_records runs only if it returned True, and then over all of
\* _extra_records (the dict _process_rec builds without the master record
\* is never installed).
ComplexRec_merge_records(d, sb, loadSet, ids, iiSkipMerge, doFilter) ==
    LET src_rec == IF doFilter THEN mergeFilter(sb.dial, loadSet) ELSE sb.dial
        sb1 == [sb EXCEPT !.dial = src_rec]
    IN IF sb.dial.ignored THEN [d |-> d, sb |-> sb, ids |-> ids]
       ELSE IF doFilter /\ ~(RecMasters(src_rec) \subseteq loadSet)
       THEN [d |-> [d EXCEPT !.dial = None], sb |-> sb1, ids |-> ids]
       ELSE IF iiSkipMerge
       THEN Nested_merge_records(d, sb1, loadSet, ids, iiSkipMerge, doFilter)
       ELSE Nested_merge_records([d EXCEPT !.dial = getTypeCopy(src_rec)],
                                 sb1, loadSet, ids \cup {src_rec.fid},
                                 iiSkipMerge, doFilter)

\* TopComplexGrup.setRecord called with a master record: [g, err]
TopComplexGrup_setRecord(gr, master_rec, do_copy, loading) ==
    LET rec == IF ~loading /\ do_copy THEN getTypeCopy(master_rec)
               ELSE master_rec
        block == MobDial(rec.fid, rec, children_mob(<<>>), TRUE)
    IN IF HasKey(gr.recs, block.fid)
       THEN IF loading THEN [g |-> gr, err |-> "ModError"]
            ELSE [g |-> [gr EXCEPT !.recs =
                            DictSet(@, [DictGet(@, block.fid)
                                           EXCEPT !.dial = block.dial])],
                  err |-> ""]
       ELSE [g |-> [gr EXCEPT !.recs = Append(@, block)], err |-> ""]

\* TopComplexGrup.merge_records: the loop over block.id_records.
\*   srcs holds the source blocks (merged ones changed in place), filtered
\*   is filtered_dials
RECURSIVE DialsLoop(_, _, _, _, _, _, _, _)

\* ... after the merge m of source block i was delegated to the destination
\* block of g1: del self.id_records[dest_dialogue.group_key()] raises
\* AttributeError when the destination's master record is None
DialsMerged(i, g1, m, was_newly_added, srcs, filtered, loadSet, iiSkipMerge, doFilter) ==
    LET g2 == [g1 EXCEPT !.recs = DictSet(@, m.d)]
        srcs2 == [srcs EXCEPT ![i] = m.sb]
        filtered_out == doFilter
             /\ ~(SeqMasters(Nested_iter_records(m.sb)) \subseteq loadSet)
    IN IF iiSkipMerge \/ filtered_out
       THEN IF ~was_newly_added
            THEN DialsLoop(i + 1, g2, srcs2, filtered, m.ids, loadSet,
                           iiSkipMerge, doFilter)
            ELSE IF m.d.dial = None
            THEN [g |-> g2, srcs |-> srcs2, filtered |-> filtered,
                  ids |-> m.ids, err |-> "AttributeError"]
            ELSE DialsLoop(i + 1, [g2 EXCEPT !.recs = DictDel(@, m.d.dial.fid)],
                           srcs2, filtered, m.ids, loadSet, iiSkipMerge,
                           doFilter)
       ELSE DialsLoop(i + 1, g2, srcs2, DictSet(filtered, m.sb), m.ids,
                      loadSet, iiSkipMerge, doFilter)

\* ... with the destination block present in g1
DialsDelegate(i, g1, was_newly_added, srcs, filtered, ids, loadSet, iiSkipMerge, doFilter) ==
    DialsMerged(i, g1,
                ComplexRec_merge_records(DictGet(g1.recs, srcs[i].fid),
                                         srcs[i], loadSet, ids, iiSkipMerge,
                                         doFilter),
                was_newly_added, srcs, filtered, loadSet, iiSkipMerge,
                doFilter)

DialsLoop(i, gr, srcs, filtered, ids, loadSet, iiSkipMerge, doFilter) ==
    IF i > Len(srcs)
    THEN [g |-> gr, srcs |-> srcs, filtered |-> filtered, ids |-> ids,
          err |-> ""]
    ELSE IF ~HasKey(gr.recs, srcs[i].fid)
    THEN DialsDelegate(i,
                       TopComplexGrup_setRecord(gr, srcs[i].dial, TRUE,
                                                FALSE).g,
                       TRUE, srcs, filtered, ids, loadSet, iiSkipMerge,
                       doFilter)
    ELSE DialsDelegate(i, gr, FALSE, srcs, filtered, ids, loadSet,
                       iiSkipMerge, doFilter)

\* TopComplexGrup.merge_records: [g, s, ids, err]
TopComplexGrup_merge_records(gr, block, loadSet, ids, iiSkipMerge, doFilter) ==
    LET r == DialsLoop(1, gr, block.recs, <<>>, ids, loadSet, iiSkipMerge,
                       doFilter)
    IN [g |-> r.g,
        s |-> [block EXCEPT !.recs = IF r.err = "" THEN r.filtered
                                     ELSE r.srcs],
        ids |-> r.ids, err |-> r.err]

\* _Nested.updateRecords: [d, ids, err]. Every children group is handed
\* srcBlock itself, a _Nested, and MobObjects.updateRecords calls its
\* getActiveRecords(), which a _Nested does not have: AttributeError before
\* the loop over the extra records is reached
Nested_updateRecords(d, srcBlock, ids) ==
    [d |-> d, ids |-> ids, err |-> "AttributeError"]

\* _ComplexRec.updateRecords: [d, ids, err]. The method body runs first; the
\* parent's updateRecords runs only if it returned True
ComplexRec_updateRecords(d, srcBlock, ids) ==
    IF srcBlock.dial.ignored THEN [d |-> d, ids |-> ids, err |-> ""]
    ELSE Nested_updateRecords([d EXCEPT !.dial = getTypeCopy(srcBlock.dial)],
                              srcBlock, ids \ {srcBlock.dial.fid})

\* TopComplexGrup.updateRecords: [g, ids, err]
RECURSIVE DialsUpdateLoop(_, _, _)
DialsUpdateLoop(srcs, gr, ids) ==
    IF srcs = <<>> THEN [g |-> gr, ids |-> ids, err |-> ""]
    ELSE IF ~HasKey(gr.recs, Head(srcs).fid)
    THEN DialsUpdateLoop(Tail(srcs), gr, ids)
    ELSE LET u == ComplexRec_updateRecords(DictGet(gr.recs, Head(srcs).fid),
                                           Head(srcs), ids)
             g1 == [gr EXCEPT !.recs = DictSet(@, u.d)]
         IN IF u.err # "" THEN [g |-> g1, ids |-> u.ids, err |-> u.err]
            ELSE DialsUpdateLoop(Tail(srcs), g1, u.ids)

TopComplexGrup_updateRecords(gr, srcBlock, ids) ==
    DialsUpdateLoop(srcBlock.recs, gr, ids)

\* _Nested.keepRecords: the children groups, then the extra records
Nested_keepRecords(c, p_keep_ids) ==
    [c EXCEPT !.infos = MobObjects_keepRecords(@, p_keep_ids),
              !.dial = IF @ # None /\ @.fid \notin p_keep_ids THEN None ELSE @]

\* _ComplexRec.keepRecords: [c, keep]. The parent's keepRecords runs first,
\* over all of _extra_records (the master record included), then the method
\* body
ComplexRec_keepRecords(c, p_keep_ids) ==
    LET p == Nested_keepRecords(c, p_keep_ids)
        mr_rec == p.dial
        any_children_kept == Nested_iter_records([p EXCEPT !.dial = None]) # <<>>
    IN IF mr_rec = None THEN [c |-> p, keep |-> p_keep_ids]
       ELSE IF any_children_kept \/ mr_rec.fid \in p_keep_ids
       THEN [c |-> p, keep |-> p_keep_ids \cup {mr_rec.fid}]
       ELSE [c |-> [p EXCEPT !.dial = None], keep |-> p_keep_ids]

\* TopComplexGrup.keepRecords: [g, keep]
RECURSIVE DialsKeepLoop(_, _, _)
DialsKeepLoop(i, recs, p_keep_ids) ==
    IF i > Len(recs) THEN [recs |-> recs, keep |-> p_keep_ids]
    ELSE LET r == ComplexRec_keepRecords(recs[i], p_keep_ids)
         IN DialsKeepLoop(i + 1, [recs EXCEPT ![i] = r.c], r.keep)

TopComplexGrup_keepRecords(gr, p_keep_ids) ==
    LET r == DialsKeepLoop(1, gr.recs, p_keep_ids)
    IN [g |-> setChanged([gr EXCEPT !.recs =
                             SelectSeq(r.recs, LAMBDA d : d.dial # None)],
                         TRUE),
        keep |-> r.keep]

----------------------------------------------------------------------------
(* MobCell: a cell block [cell, pgrd, land, temp_refs, persistent_refs,    *)
(* distant_refs, changed]; an absent cell, pgrd or land is None            *)
(***************************************************************************)
MobCell(cell, pgrd, land, temp, persistent, distant) ==
    [cell |-> cell, pgrd |-> pgrd, land |-> land, temp_refs |-> temp,
     persistent_refs |-> persistent, distant_refs |-> distant,
     changed |-> TRUE]

\* MobCell._cell_children: persistent, LAND -> PGRD -> temporary, distant
MobCell_cell_children(c) ==
    <<c.persistent_refs,
      SelectSeq(<<c.land, c.pgrd>>, LAMBDA x : x # None) \o c.temp_refs,
      c.distant_refs>>

\* MobCell.iter_records
MobCell_iter_records(c) ==
    LET ch == MobCell_cell_children(c)
    IN (IF c.cell # None THEN <<c.cell>> ELSE <<>>) \o ch[1] \o ch[2] \o ch[3]

\* MobCell.merge_records, first loop: the cell, pgrd and land attributes
RECURSIVE CellSlotsLoop(_, _, _, _, _, _, _)
CellSlotsLoop(attrs, d, sb, ids, loadSet, iiSkipMerge, doFilter) ==
    IF attrs = <<>> THEN [d |-> d, sb |-> sb, ids |-> ids]
    ELSE LET single_attr == Head(attrs)
             src_rec == IF doFilter THEN mergeFilter(sb[single_attr], loadSet)
                        ELSE sb[single_attr]
         IN IF sb[single_attr] = None \/ sb[single_attr].ignored
            THEN CellSlotsLoop(Tail(attrs), d, sb, ids, loadSet, iiSkipMerge,
                               doFilter)
            ELSE IF doFilter /\ ~(RecMasters(src_rec) \subseteq loadSet)
            THEN CellSlotsLoop(Tail(attrs), d,
                               [sb EXCEPT ![single_attr] = None], ids,
                               loadSet, iiSkipMerge, doFilter)
            ELSE IF iiSkipMerge
            THEN CellSlotsLoop(Tail(attrs), d,
                               [sb EXCEPT ![single_attr] = src_rec], ids,
                               loadSet, iiSkipMerge, doFilter)
            ELSE CellSlotsLoop(Tail(attrs),
                               [d EXCEPT ![single_attr] = getTypeCopy(src_rec)],
                               [sb EXCEPT ![single_attr] = src_rec],
                               ids \cup {src_rec.fid}, loadSet, iiSkipMerge,
                               doFilter)

\* id_fids = {record.fid: i for i, record in enumerate(dest_list)}: the last
\* index holding the fid
LastIndexOf(q, k) ==
    CHOOSE i \in 1..Len(q) :
        q[i].fid = k /\ \A j \in (i + 1)..Len(q) : q[j].fid # k

\* MobCell.merge_records, the loop over one reference list:
\*   id_list is the destination list as it was when id_fids was built
RECURSIVE RefsLoop(_, _, _, _, _, _, _, _)
RefsLoop(src_list, dest_list, id_list, filtered_list, ids, loadSet, iiSkipMerge, doFilter) ==
    IF src_list = <<>>
    THEN [dest |-> dest_list, filtered |-> filtered_list, ids |-> ids]
    ELSE LET src_rec == IF doFilter THEN mergeFilter(Head(src_list), loadSet)
                        ELSE Head(src_list)
             rec_copy == getTypeCopy(src_rec)
         IN IF Head(src_list).ignored
            THEN RefsLoop(Tail(src_list), dest_list, id_list, filtered_list,
                          ids, loadSet, iiSkipMerge, doFilter)
            ELSE IF doFilter /\ ~(RecMasters(src_rec) \subseteq loadSet)
            THEN RefsLoop(Tail(src_list), dest_list, id_list, filtered_list,
                          ids, loadSet, iiSkipMerge, doFilter)
            ELSE IF iiSkipMerge
            THEN RefsLoop(Tail(src_list), dest_list, id_list,
                          Append(filtered_list, src_rec), ids, loadSet,
                          iiSkipMerge, doFilter)
            ELSE RefsLoop(Tail(src_list),
                          IF HasKey(id_list, rec_copy.fid)
                          THEN [dest_list EXCEPT
                                   ![LastIndexOf(id_list, rec_copy.fid)] =
                                       rec_copy]
                          ELSE Append(dest_list, rec_copy),
                          id_list, Append(filtered_list, src_rec),
                          ids \cup {src_rec.fid}, loadSet, iiSkipMerge,
                          doFilter)

RECURSIVE CellListsLoop(_, _, _, _, _, _, _)
CellListsLoop(attrs, d, sb, ids, loadSet, iiSkipMerge, doFilter) ==
    IF attrs = <<>> THEN [d |-> d, sb |-> sb, ids |-> ids]
    ELSE LET list_attr == Head(attrs)
             r == RefsLoop(sb[list_attr], d[list_attr], d[list_attr], <<>>,
                           ids, loadSet, iiSkipMerge, doFilter)
         IN CellListsLoop(Tail(attrs), [d EXCEPT ![list_attr] = r.dest],
                          [sb EXCEPT ![list_attr] = r.filtered], r.ids,
                          loadSet, iiSkipMerge, doFilter)

\* MobCell.merge_records: [g, s, ids, err]
MobCell_merge_records(d, block, loadSet, ids, iiSkipMerge, doFilter) ==
    LET a == CellSlotsLoop(<<"cell", "pgrd", "land">>, d, block, ids, loadSet,
                           iiSkipMerge, doFilter)
        b == CellListsLoop(<<"temp_refs", "persistent_refs", "distant_refs">>,
                           a.d, a.sb, a.ids, loadSet, iiSkipMerge, doFilter)
    IN [g |-> b.d, s |-> b.sb, ids |-> b.ids, err |-> ""]

\* MobCell.keepRecords: [c, keep]
MobCell_keepRecords_others(c, p_keep_ids) ==
    [c |-> [c EXCEPT !.temp_refs =
                       SelectSeq(@, LAMBDA x : x.fid \notin p_keep_ids),
                     !.changed = TRUE],
     keep |-> p_keep_ids \cup {c.cell.fid}]

MobCell_keepRecords(c, p_keep_ids) ==
    LET Kept(q) == SelectSeq(q, LAMBDA x : x.fid \in p_keep_ids)
        c1 == [c EXCEPT
                 !.pgrd = IF @ # None /\ @.fid \notin p_keep_ids THEN None
                          ELSE @,
                 !.land = IF @ # None /\ @.fid \notin p_keep_ids THEN None
                          ELSE @,
                 !.temp_refs = Kept(@),
                 !.persistent_refs = Kept(@),
                 !.distant_refs = Kept(@)]
    IN [c |-> setChanged(c1, TRUE),
        keep |-> IF c1.pgrd # None \/ c1.land # None
                    \/ c1.persistent_refs # <<>> \/ c1.temp_refs # <<>>
                    \/ c1.distant_refs # <<>>
                 THEN p_keep_ids \cup {c.cell.fid} ELSE p_keep_ids]

----------------------------------------------------------------------------
(* MobCells / MobWorld / MobWorlds                                         *)
(* id_cellBlock is a sequence of entries [fid, blk]: the key and the       *)
(* MobCell held under it. A MobWorld is [fid, world, road, worldCellBlock, *)
(* cells, changed]: fid is the key id_worldBlocks holds it under,          *)
(* worldCellBlock is <<>> (None) or <<the persistent cell's MobCell>>,     *)
(* cells is id_cellBlock.                                                  *)
(***************************************************************************)
CellEntry(blk) == [fid |-> blk.cell.fid, blk |-> blk]

MobWorld(world, road, worldCellBlock, cells) ==
    [fid |-> world.fid, world |-> world, road |-> road,
     worldCellBlock |-> worldCellBlock, cells |-> cells, changed |-> TRUE]

\* MobCells.iter_records
RECURSIVE MobCells_iter_records(_)
MobCells_iter_records(cells) ==
    IF cells = <<>> THEN <<>>
    ELSE MobCell_iter_records(Head(cells).blk)
         \o MobCells_iter_records(Tail(cells))

\* MobWorld.iter_records
MobWorld_iter_records(w) ==
    SelectSeq(<<w.world, w.road>>, LAMBDA x : x # None)
    \o (IF w.worldCellBlock # <<>>
        THEN MobCell_iter_records(w.worldCellBlock[1]) ELSE <<>>)
    \o MobCells_iter_records(w.cells)

\* MobWorlds.iter_records
RECURSIVE MobWorlds_iter_records(_)
MobWorlds_iter_records(worlds) ==
    IF worlds = <<>> THEN <<>>
    ELSE MobWorld_iter_records(Head(worlds))
         \o MobWorlds_iter_records(Tail(worlds))

\* MobCells.keepRecords on id_cellBlock: [cells, keep]
RECURSIVE CellsKeepLoop(_, _, _)
CellsKeepLoop(i, cells, p_keep_ids) ==
    IF i > Len(cells) THEN [cells |-> cells, keep |-> p_keep_ids]
    ELSE LET r == MobCell_keepRecords(cells[i].blk, p_keep_ids)
         IN CellsKeepLoop(i + 1, [cells EXCEPT ![i].blk = r.c], r.keep)

MobCells_keepRecords(cells, p_keep_ids) ==
    LET r == CellsKeepLoop(1, cells, p_keep_ids)
    IN [cells |-> SelectSeq(r.cells, LAMBDA e : e.fid \in r.keep),
        keep |-> r.keep]

\* MobWorld.keepRecords: [w, keep]
MobWorld_keepRecords_all(w, p_keep_ids) ==
    [w |-> w, keep |-> p_keep_ids \cup {w.world.fid}]

MobWorld_keepRecords(w, p_keep_ids) ==
    LET road == IF w.road # None /\ w.road.fid \notin p_keep_ids THEN None
                ELSE w.road
        pc == IF w.worldCellBlock = <<>>
              THEN [c |-> None, keep |-> p_keep_ids]
              ELSE MobCell_keepRecords(w.worldCellBlock[1], p_keep_ids)
        worldCellBlock == IF w.worldCellBlock = <<>> THEN <<>>
                          ELSE IF pc.c.cell.fid \notin pc.keep THEN <<>>
                          ELSE <<pc.c>>
        cs == MobCells_keepRecords(w.cells, pc.keep)
    IN [w |-> [w EXCEPT !.road = road, !.worldCellBlock = worldCellBlock,
                        !.cells = cs.cells, !.changed = TRUE],
        keep |-> IF road # None \/ worldCellBlock # <<>> \/ cs.cells # <<>>
                 THEN cs.keep \cup {w.world.fid} ELSE cs.keep]

\* MobWorlds.keepRecords: [g, keep]
RECURSIVE WorldsKeepLoop(_, _, _)
WorldsKeepLoop(i, worlds, p_keep_ids) ==
    IF i > Len(worlds) THEN [worlds |-> worlds, keep |-> p_keep_ids]
    ELSE LET r == MobWorld_keepRecords(worlds[i], p_keep_ids)
         IN WorldsKeepLoop(i + 1, [worlds EXCEPT ![i] = r.w], r.keep)

MobWorlds_keepRecords(gr, p_keep_ids) ==
    LET r == WorldsKeepLoop(1, gr.recs, p_keep_ids)
    IN [g |-> setChanged([gr EXCEPT !.recs =
                             SelectSeq(r.worlds, LAMBDA w : w.fid \in r.keep)],
                         TRUE),
        keep |-> r.keep]

\* A group header as written: label, size field and group type
GrupTok(label, size, groupType) == Tok("GRUP", label, size, groupType)

\* sum(hsize + x.getSize() for x in refs)
RECURSIVE RefsSize(_)
RefsSize(refs) ==
    IF refs = <<>> THEN 0
    ELSE rec_header_size + Head(refs).sz + RefsSize(Tail(refs))

\* MobCell._get_children_arrays: [size, arrays], an array being
\* [size, groupType, refs]
MobCell_get_children_arrays(c) ==
    LET children == MobCell_cell_children(c)
        Arr(i, gt) == IF children[i] = <<>> THEN <<>>
                      ELSE <<[size |-> RefsSize(children[i]) + rec_header_size,
                              groupType |-> gt, refs |-> children[i]]>>
        arrays == Arr(1, 8) \o Arr(2, 9) \o Arr(3, 10)
        children_size == SumSeq([i \in 1..Len(arrays) |-> arrays[i].size])
    IN [size |-> IF children_size # 0 THEN children_size + rec_header_size
                 ELSE 0,
        arrays |-> arrays]

\* MobCell.getSize
MobCell_getSize_nochildren(c) == rec_header_size + c.cell.sz

MobCell_getSize(c) ==
    rec_header_size + c.cell.sz + MobCell_get_children_arrays(c).size

\* MobCell._sort_group
MobCell_sort_group(c) ==
    [c EXCEPT !.persistent_refs = dict_sort(@), !.temp_refs = dict_sort(@),
              !.distant_refs = dict_sort(@)]

\* MobCell._write_children_group for each of the arrays
RECURSIVE WriteArrays(_, _)
WriteArrays(label, arrays) ==
    IF arrays = <<>> THEN <<>>
    ELSE <<GrupTok(label, Head(arrays).size, Head(arrays).groupType)>>
         \o RecsDump(Head(arrays).refs)
         \o WriteArrays(label, Tail(arrays))

\* MobCell.dump: [c, out]. The arrays are built before _sort_group: the
\* persistent and distant arrays are the lists _sort_group sorts in place,
\* the temporary one is a list of its own built from land, pgrd and
\* temp_refs, which keeps the order it was built in
MobCell_dump(c) ==
    LET ch == MobCell_get_children_arrays(c)
        c1 == MobCell_sort_group(c)
        Sorted(a) == IF a.groupType = 8 THEN [a EXCEPT !.refs = c1.persistent_refs]
                     ELSE IF a.groupType = 10
                     THEN [a EXCEPT !.refs = c1.distant_refs]
                     ELSE a
        arrays == [i \in 1..Len(ch.arrays) |-> Sorted(ch.arrays[i])]
    IN IF ch.size = 0 THEN [c |-> c, out |-> <<RecDump(c.cell)>>]
       ELSE [c |-> c1,
             out |-> <<RecDump(c.cell), GrupTok(c.cell.fid, ch.size, 6)>>
                     \o WriteArrays(c.cell.fid, arrays)]

\* cell.getBsb(): the (block, sub-block) the cell record belongs to, read
\* from its payload
getBsb(r) == <<r.ver \div 2, r.ver % 2>>

\* The sub-block None of the key (block, None)
NoSub == -1

BsbLess(a, b) == a[1] < b[1] \/ (a[1] = b[1] /\ a[2] < b[2])

\* bsbCellBlocks.sort(key=itemgetter(0)): a stable sort by bsb
RECURSIVE InsertByBsb(_, _)
InsertByBsb(q, v) ==
    IF q = <<>> THEN <<v>>
    ELSE IF BsbLess(v.bsb, Head(q).bsb) THEN <<v>> \o q
    ELSE <<Head(q)>> \o InsertByBsb(Tail(q), v)

RECURSIVE SortByBsb(_)
SortByBsb(q) ==
    IF q = <<>> THEN <<>>
    ELSE InsertByBsb(SortByBsb(SubSeq(q, 1, Len(q) - 1)), q[Len(q)])

\* a defaultdict(lambda: hsize) as a function
SizeGet(f, k) == IF k \in DOMAIN f THEN f[k] ELSE rec_header_size

SizePut(f, k, v) == [x \in DOMAIN f \cup {k} |-> IF x = k THEN v ELSE f[x]]

\* MobCells.getBsbSizes, the loop over bsbCellBlocks: [total, bsb_size]
RECURSIVE BsbSizesLoop(_, _, _)
BsbSizesLoop(blocks, totalSize, bsb_size) ==
    IF blocks = <<>> THEN [total |-> totalSize, bsb_size |-> bsb_size]
    ELSE LET bsb == Head(blocks).bsb
             cellBlockSize == MobCell_getSize(Head(blocks).blk)
             bsb0 == <<bsb[1], NoSub>>
             f1 == IF bsb \notin DOMAIN bsb_size
                   THEN SizePut(bsb_size, bsb0,
                                SizeGet(bsb_size, bsb0) + rec_header_size)
                   ELSE bsb_size
             f2 == SizePut(f1, bsb, SizeGet(f1, bsb) + cellBlockSize)
             f3 == SizePut(f2, bsb0, SizeGet(f2, bsb0) + cellBlockSize)
         IN BsbSizesLoop(Tail(blocks), totalSize + cellBlockSize, f3)

\* MobCells.getBsbSizes: [total, bsb_size, blocks]
MobCells_bsbCellBlocks_unsorted(cells) ==
    [i \in 1..Len(cells) |->
        [bsb |-> getBsb(cells[i].blk.cell), fid |-> cells[i].fid,
         blk |-> cells[i].blk]]

MobCells_bsbCellBlocks(cells) ==
    SortByBsb([i \in 1..Len(cells) |->
                  [bsb |-> getBsb(dict_sort(cells)[i].blk.cell),
                   fid |-> dict_sort(cells)[i].fid,
                   blk |-> dict_sort(cells)[i].blk]])

MobCells_getBsbSizes(cells) ==
    LET blocks == MobCells_bsbCellBlocks(cells)
        r == BsbSizesLoop(blocks, rec_header_size, <<>>)
    IN [total |-> r.total
                  + rec_header_size * Cardinality(DOMAIN r.bsb_size),
        bsb_size |-> r.bsb_size, blocks |-> blocks]

\* MobCells.dumpBlocks: the loop; cur is (curBlock, curSubblock), None being
\* NoSub
RECURSIVE DumpBlocksLoop(_, _, _, _, _)
DumpBlocksLoop(blocks, bsb_size, cur, blockGroupType, subBlockGroupType) ==
    IF blocks = <<>> THEN <<>>
    ELSE LET bsb == Head(blocks).bsb
             bsb0 == <<bsb[1], NoSub>>
             cur1 == IF bsb[1] # cur[1] THEN bsb0 ELSE cur
         IN (IF bsb[1] # cur[1]
             THEN <<GrupTok(bsb[1], bsb_size[bsb0], blockGroupType)>>
             ELSE <<>>)
            \o (IF bsb[2] # cur1[2]
                THEN <<GrupTok(bsb[2], bsb_size[bsb], subBlockGroupType)>>
                ELSE <<>>)
            \o MobCell_dump(Head(blocks).blk).out
            \o DumpBlocksLoop(Tail(blocks), bsb_size, bsb, blockGroupType,
                              subBlockGroupType)

MobCells_dumpBlocks(blocks, bsb_size, blockGroupType, subBlockGroupType) ==
    DumpBlocksLoop(blocks, bsb_size, <<NoSub, NoSub>>, blockGroupType,
                   subBlockGroupType)

\* MobICells.dump of a changed group: [g, out, err]; the cell blocks are
\* sorted by their dump
MobICells_dump(gr) ==
    IF ~gr.changed
    THEN [g |-> gr, out |-> <<PackHead(gr)>> \o gr.data, err |-> ""]
    ELSE IF gr.recs = <<>> THEN [g |-> gr, out |-> <<>>, err |-> ""]
    ELSE LET r == MobCells_getBsbSizes(gr.recs)
         IN [g |-> [gr EXCEPT !.size = r.total,
                              !.recs = [i \in 1..Len(@) |->
                                          [@[i] EXCEPT !.blk =
                                              MobCell_dump(@).c]]],
             out |-> <<GrupTok(0, r.total, 0)>>
                     \o MobCells_dumpBlocks(r.blocks, r.bsb_size, 2, 3),
             err |-> ""]

\* An INFO record as far as the sort of a DIAL's children reads it: its key
\* and its PNAM (0 when it has none)
Info(k, p) == [fid |-> k, prev_info |-> p]

\* MobDial._DialChildren._sort_group, before the loop: the loop state
\* [sorted_infos, remaining_infos, visited_fids]; the right end of the deque
\* is the end of the sequence
SortSplit(recs) ==
    [sorted_infos |-> SelectSeq(recs, LAMBDA r : r.prev_info = 0),
     remaining_infos |-> SelectSeq(recs, LAMBDA r : r.prev_info # 0),
     visited_fids |-> {}]

\* One iteration of the loop that never gives a record up
SortStep_retry(st) ==
    LET n == Len(st.remaining_infos)
        curr_info == st.remaining_infos[n]
        rest == SubSeq(st.remaining_infos, 1, n - 1)
        found == {i \in 1..Len(st.sorted_infos) :
                     st.sorted_infos[i].fid = curr_info.prev_info}
    IN IF found # {}
       THEN LET i == CHOOSE x \in found : \A y \in found : x <= y
            IN [st EXCEPT !.sorted_infos =
                              SubSeq(@, 1, i) \o <<curr_info>>
                              \o SubSeq(@, i + 1, Len(@)),
                          !.remaining_infos = rest]
       ELSE [st EXCEPT !.visited_fids = @ \cup {curr_info.fid},
                       !.remaining_infos = <<curr_info>> \o rest]

\* One iteration of the loop that forgets a record it gives up on
SortStep_drop(st) ==
    LET n == Len(st.remaining_infos)
        curr_info == st.remaining_infos[n]
        rest == SubSeq(st.remaining_infos, 1, n - 1)
        found == {i \in 1..Len(st.sorted_infos) :
                     st.sorted_infos[i].fid = curr_info.prev_info}
    IN IF found # {}
       THEN LET i == CHOOSE x \in found : \A y \in found : x <= y
            IN [st EXCEPT !.sorted_infos =
                              SubSeq(@, 1, i) \o <<curr_info>>
                              \o SubSeq(@, i + 1, Len(@)),
                          !.remaining_infos = rest]
       ELSE IF curr_info.fid \in st.visited_fids
       THEN [st EXCEPT !.remaining_infos = rest]
       ELSE [st EXCEPT !.visited_fids = @ \cup {curr_info.fid},
                       !.remaining_infos = <<curr_info>> \o rest]

\* One iteration of the while loop
SortStep(st) ==
    LET n == Len(st.remaining_infos)
        curr_info == st.remaining_infos[n]
        rest == SubSeq(st.remaining_infos, 1, n - 1)
        found == {i \in 1..Len(st.sorted_infos) :
                     st.sorted_infos[i].fid = curr_info.prev_info}
    IN IF found # {}
       THEN LET i == CHOOSE x \in found : \A y \in found : x <= y
            IN [st EXCEPT !.sorted_infos =
                              SubSeq(@, 1, i) \o <<curr_info>>
                              \o SubSeq(@, i + 1, Len(@)),
                          !.remaining_infos = rest]
       ELSE IF curr_info.fid \in st.visited_fids
       THEN [st EXCEPT !.sorted_infos = Append(@, curr_info),
                       !.remaining_infos = rest]
       ELSE [st EXCEPT !.visited_fids = @ \cup {curr_info.fid},
                       !.remaining_infos = <<curr_info>> \o rest]

RECURSIVE SortLoop(_)
SortLoop(st) ==
    IF st.remaining_infos = <<>> THEN st.sorted_infos
    ELSE SortLoop(SortStep(st))

\* MobDial._DialChildren._sort_group: the new id_records
DialChildren_sort_group(recs) == SortLoop(SortSplit(recs))

----------------------------------------------------------------------------
(***************************************************************************)
(* Loading the composite groups. An input stream is a sequence of headers: *)
(* a record header (sig, rec) or a group header (sig "GRUP", label,        *)
(* groupType, size, and for a children group the headers of its blob). A   *)
(* position in a stream counts headers.                                    *)
(***************************************************************************)
RecIn(sig, rec) ==
    [sig |-> sig, rec |-> rec, label |-> 0, groupType |-> 0, size |-> 0,
     body |-> <<>>]

GrupIn(label, groupType, size, body) ==
    [sig |-> "GRUP", rec |-> None, label |-> label, groupType |-> groupType,
     size |-> size, body |-> body]

\* loadFactory.getCellTypeClass(): the record types of a cell's children
CellTypeSigs == {"REFR", "ACHR", "ACRE", "LAND", "PGRD"}

\* cell.flags1.persistent, a bit of the record's payload
flags1_persistent(r) == r.ver = 1

\* MobCell._load_rec_group, a reference record: appended to the list of the
\* subgroup that was read last (groupType 0 is None)
AppendRef(c, groupType, record) ==
    IF groupType = 8 THEN [c EXCEPT !.persistent_refs = Append(@, record)]
    ELSE IF groupType = 9 THEN [c EXCEPT !.temp_refs = Append(@, record)]
    ELSE IF groupType = 10 THEN [c EXCEPT !.distant_refs = Append(@, record)]
    ELSE c

\* MobCell._load_rec_group over the blob of a cell children group: [c, err]
RECURSIVE MobCell_load_rec_group(_, _, _, _)
MobCell_load_rec_group(c, body, groupType, subgroupLoaded) ==
    IF body = <<>> THEN [c |-> c, err |-> ""]
    ELSE IF Head(body).sig = "GRUP"
    THEN IF Head(body).groupType \notin {8, 9, 10}
            \/ Head(body).groupType \in subgroupLoaded
         THEN [c |-> c, err |-> "ModError"]
         ELSE MobCell_load_rec_group(c, Tail(body), Head(body).groupType,
                  subgroupLoaded \cup {Head(body).groupType})
    ELSE IF Head(body).sig \notin CellTypeSigs
    THEN [c |-> c, err |-> "ModError"]
    ELSE MobCell_load_rec_group(
             IF Head(body).sig \in {"REFR", "ACHR", "ACRE"}
             THEN AppendRef(c, groupType, Head(body).rec)
             ELSE IF Head(body).sig = "LAND"
             THEN [c EXCEPT !.land = Head(body).rec]
             ELSE [c EXCEPT !.pgrd = Head(body).rec],
             Tail(body), groupType, subgroupLoaded)

\* MobCells.setCell, the new cell block r = [c, err] is registered
SetCellBlock(cells, r) ==
    IF r.err # "" THEN [cells |-> cells, err |-> r.err]
    ELSE [cells |-> Append(cells, CellEntry(r.c)), err |-> ""]

\* MobCells.setCell: [cells, err]; body is the blob of children_head, read
\* when unpack_block is set
MobCells_setCell(cells, cell, body, loading, unpack_block) ==
    IF HasKey(cells, cell.fid)
    THEN IF loading THEN [cells |-> cells, err |-> "ModError"]
         ELSE [cells |-> DictSet(cells,
                  [DictGet(cells, cell.fid)
                      EXCEPT !.blk.cell = getTypeCopy(cell)]),
               err |-> ""]
    ELSE SetCellBlock(cells,
             IF unpack_block
             THEN MobCell_load_rec_group(
                      MobCell(IF loading THEN cell ELSE getTypeCopy(cell),
                              None, None, <<>>, <<>>, <<>>), body, 0, {})
             ELSE [c |-> MobCell(IF loading THEN cell ELSE getTypeCopy(cell),
                                 None, None, <<>>, <<>>, <<>>),
                   err |-> ""])

\* MobWorld.setCell after super().setCell returned r = [cells, err]
MobWorld_setCell(cls, st, cell, loading, r) ==
    IF r.err # "" THEN [st |-> st, err |-> r.err]
    ELSE IF cls = "MobWorld" /\ loading /\ flags1_persistent(cell)
    THEN IF st.worldCellBlock # <<>>
         THEN [st |-> [st EXCEPT !.cells = r.cells], err |-> "ModError"]
         ELSE [st |-> [st EXCEPT
                         !.worldCellBlock = <<DictGet(r.cells, cell.fid).blk>>,
                         !.cells = DictDel(r.cells, cell.fid)],
               err |-> ""]
    ELSE [st |-> [st EXCEPT !.cells = r.cells], err |-> ""]

\* setCell of a cells block st = [road, worldCellBlock, cells]:
\* MobCells.setCell, and for a MobWorld, MobWorld.setCell on top of it:
\* [st, err]
setCell(cls, st, cell, body, loading, unpack_block) ==
    MobWorld_setCell(cls, st, cell, loading,
        MobCells_setCell(st.cells, cell, body, loading, unpack_block))

\* A _load_group6 that skips the children group of no cell
MobCells_load_group6_skip(cls, st, header, cell, unpackCellBlocks) ==
    IF cell # None
    THEN IF header.label # cell.fid THEN [st |-> st, err |-> "ModError"]
         ELSE setCell(cls, st, cell, header.body, TRUE, unpackCellBlocks)
    ELSE [st |-> st, err |-> ""]

\* MobCells._load_group6: [st, err]
MobCells_load_group6(cls, st, header, cell, unpackCellBlocks) ==
    IF cell # None
    THEN IF header.label # cell.fid THEN [st |-> st, err |-> "ModError"]
         ELSE setCell(cls, st, cell, header.body, TRUE, unpackCellBlocks)
    ELSE [st |-> st, err |-> "ModError"]

\* The cell left over is finished: setCell(cell, children_head=None,
\* loading=True)
FinishCell(cls, st, cell) ==
    IF cell # None THEN setCell(cls, st, cell, <<>>, TRUE, FALSE)
    ELSE [st |-> st, err |-> ""]

\* MobICells._load_rec_group: the loop and what follows it, [st, err]; pos
\* is ins.tell()
RECURSIVE ICellsLoadLoop(_, _, _, _, _, _, _)

\* ... a CELL header, after the cell before it was finished with r
ICellsCell(r, ins, endBlockPos, endSubblockPos, pos, unpack) ==
    IF r.err # "" THEN r
    ELSE IF pos + 1 > endBlockPos \/ pos + 1 > endSubblockPos
    THEN [st |-> r.st, err |-> "ModError"]
    ELSE ICellsLoadLoop(r.st, Tail(ins), Head(ins).rec, endBlockPos,
                        endSubblockPos, pos + 1, unpack)

\* ... a cell children group, after _load_group6 returned r
ICellsGroup6(r, ins, endBlockPos, endSubblockPos, pos, unpack) ==
    IF r.err # "" THEN r
    ELSE ICellsLoadLoop(r.st, Tail(ins), None, endBlockPos, endSubblockPos,
                        pos + 1 + Head(ins).size, unpack)

ICellsLoadLoop(st, ins, cell, endBlockPos, endSubblockPos, pos, unpack) ==
    IF ins = <<>> THEN FinishCell("MobICells", st, cell)
    ELSE IF Head(ins).sig = "CELL"
    THEN ICellsCell(FinishCell("MobICells", st, cell), ins, endBlockPos,
                    endSubblockPos, pos, unpack)
    ELSE IF Head(ins).sig = "GRUP" /\ Head(ins).groupType = 2
    THEN ICellsLoadLoop(st, Tail(ins), cell, pos + 1 + Head(ins).size,
                        endSubblockPos, pos + 1, unpack)
    ELSE IF Head(ins).sig = "GRUP" /\ Head(ins).groupType = 3
    THEN ICellsLoadLoop(st, Tail(ins), cell, endBlockPos,
                        pos + 1 + Head(ins).size, pos + 1, unpack)
    ELSE IF Head(ins).sig = "GRUP" /\ Head(ins).groupType = 6
    THEN ICellsGroup6(MobCells_load_group6("MobICells", st, Head(ins), cell,
                                           unpack),
                      ins, endBlockPos, endSubblockPos, pos, unpack)
    ELSE [st |-> st, err |-> "ModError"]

\* The interior cells group after its blob was read with r
ICellsLoaded(r) ==
    [g |-> Mob("MobICells", r.err = "", 0, <<>>, FALSE, r.st.cells),
     err |-> r.err]

\* MobICells(header, loadFactory, ins, do_unpack=True): [g, err]
MobICells_load(ins, unpack) ==
    ICellsLoaded(ICellsLoadLoop([road |-> None, worldCellBlock |-> <<>>,
                                 cells |-> <<>>], ins, None, 0, 0, 0, unpack))

\* MobWorld._load_rec_group: the loop and what follows it, [st, err]; st
\* holds road, worldCellBlock and id_cellBlock, cells the CELL records read
\* so far, endBlockPos the value after the test at the top of the iteration
RECURSIVE WorldLoadLoop(_, _, _, _, _, _, _, _)

\* ... a CELL header, after the cell before it was finished with r
WorldCell(r, ins, cells, endBlockPos, endSubblockPos, pos, unpack) ==
    IF r.err # "" THEN r
    ELSE IF endBlockPos # 0
            /\ (pos + 1 > endBlockPos \/ pos + 1 > endSubblockPos)
    THEN [st |-> r.st, err |-> "ModError"]
    ELSE WorldLoadLoop(r.st, Tail(ins), Head(ins).rec,
                       DictSet(cells, Head(ins).rec), endBlockPos,
                       endSubblockPos, pos + 1, unpack)

\* ... a cell children group, after _load_group6 returned r
WorldGroup6(r, ins, cells, endBlockPos, endSubblockPos, pos, unpack) ==
    IF r.err # "" THEN r
    ELSE WorldLoadLoop(r.st, Tail(ins), None, cells, endBlockPos,
                       endSubblockPos, pos + 1 + Head(ins).size, unpack)

\* ... one header
WorldHeader(st, ins, cell, cells, endBlockPos, endSubblockPos, pos, unpack) ==
    IF Head(ins).sig = "ROAD"
    THEN WorldLoadLoop([st EXCEPT !.road = Head(ins).rec], Tail(ins), cell,
                       cells, endBlockPos, endSubblockPos, pos + 1, unpack)
    ELSE IF Head(ins).sig = "CELL"
    THEN WorldCell(FinishCell("MobWorld", st, cell), ins, cells, endBlockPos,
                   endSubblockPos, pos, unpack)
    ELSE IF Head(ins).sig = "GRUP" /\ Head(ins).groupType = 4
    THEN WorldLoadLoop(st, Tail(ins), cell, cells, pos + 1 + Head(ins).size,
                       endSubblockPos, pos + 1, unpack)
    ELSE IF Head(ins).sig = "GRUP" /\ Head(ins).groupType = 5
    THEN WorldLoadLoop(st, Tail(ins), cell, cells, endBlockPos,
                       pos + 1 + Head(ins).size, pos + 1, unpack)
    ELSE IF Head(ins).sig = "GRUP" /\ Head(ins).groupType = 6
    THEN WorldGroup6(
             MobCells_load_group6("MobWorld", st, Head(ins),
                 IF HasKey(cells, Head(ins).label)
                 THEN DictGet(cells, Head(ins).label) ELSE None, unpack),
             ins, cells, endBlockPos, endSubblockPos, pos, unpack)
    ELSE [st |-> st, err |-> "ModError"]

WorldLoadLoop(st, ins, cell, cells, endBlockPos, endSubblockPos, pos, unpack) ==
    IF ins = <<>> THEN FinishCell("MobWorld", st, cell)
    ELSE WorldHeader(st, ins, cell, cells,
                     IF pos >= endBlockPos THEN 0 ELSE endBlockPos,
                     endSubblockPos, pos, unpack)

\* The world block after its blob was read with r
WorldLoaded(world, r) ==
    [w |-> MobWorld(world, r.st.road, r.st.worldCellBlock, r.st.cells),
     err |-> r.err]

\* MobWorld(header, loadFactory, world, ins, True): [w, err]
MobWorld_load(world, body, unpack) ==
    WorldLoaded(world,
        WorldLoadLoop([road |-> None, worldCellBlock |-> <<>>, cells |-> <<>>],
                      body, None, <<>>, 0, 0, 0, unpack))

\* MobWorlds.setWorld
MobWorlds_setWorld(blocks, world) ==
    IF HasKey(blocks, world.fid)
    THEN DictSet(blocks, [DictGet(blocks, world.fid)
                             EXCEPT !.world = getTypeCopy(world)])
    ELSE Append(blocks, MobWorld(getTypeCopy(world), None, <<>>, <<>>))

\* MobWorlds._load_rec_group: the loop and what follows it,
\* [blocks, orphansSkipped, err]; prevSig is the type of prev_header ("" when
\* there is none), worlds the WRLD records read so far
RECURSIVE WorldsLoadLoop(_, _, _, _, _, _, _)

\* ... a world children group of a known world, after MobWorld(...) returned r
WorldsBlock(r, blocks, ins, worlds, orphansSkipped, unpack) ==
    IF r.err # ""
    THEN [blocks |-> blocks, orphansSkipped |-> orphansSkipped,
          err |-> "ModError"]
    ELSE WorldsLoadLoop(DictSet(blocks, r.w), Tail(ins), None, worlds,
                        Head(ins).sig, orphansSkipped, unpack)

WorldsLoadLoop(blocks, ins, world, worlds, prevSig, orphansSkipped, unpack) ==
    IF ins = <<>>
    THEN [blocks |-> IF world # None THEN MobWorlds_setWorld(blocks, world)
                     ELSE blocks,
          orphansSkipped |-> orphansSkipped, err |-> ""]
    ELSE IF Head(ins).sig = "WRLD"
    THEN WorldsLoadLoop(IF prevSig = "WRLD"
                        THEN MobWorlds_setWorld(blocks, world) ELSE blocks,
                        Tail(ins), Head(ins).rec,
                        DictSet(worlds, Head(ins).rec), Head(ins).sig,
                        orphansSkipped, unpack)
    ELSE IF Head(ins).sig # "GRUP" \/ Head(ins).groupType # 1
    THEN [blocks |-> blocks, orphansSkipped |-> orphansSkipped,
          err |-> "ModError"]
    ELSE IF ~HasKey(worlds, Head(ins).label)
    THEN WorldsLoadLoop(blocks, Tail(ins), None, worlds, Head(ins).sig,
                        orphansSkipped + 1, unpack)
    ELSE IF Head(ins).label # DictGet(worlds, Head(ins).label).fid
    THEN [blocks |-> blocks, orphansSkipped |-> orphansSkipped,
          err |-> "ModError"]
    ELSE WorldsBlock(MobWorld_load(DictGet(worlds, Head(ins).label),
                                   Head(ins).body, unpack),
                     blocks, ins, worlds, orphansSkipped, unpack)

\* The WRLD top group after its blob was read with r
WorldsLoaded(r) ==
    [g |-> Mob("MobWorlds", r.err = "", 0, <<>>, FALSE, r.blocks),
     orphans |-> r.orphansSkipped, err |-> r.err]

\* MobWorlds(header, loadFactory, ins, do_unpack=True): [g, orphans, err]
MobWorlds_load(ins, unpack) ==
    WorldsLoaded(WorldsLoadLoop(<<>>, ins, None, <<>>, "", 0, unpack))

\* _Nested._load_rec_group of a MobDial after its DIAL was read:
\* [d, rest, err], rest being the stream from the header the loop stopped at
RECURSIVE Nested_load_rec_group(_, _, _)

\* ... a children group of the DIAL's key, after _DialChildren(...) returned r
NestedChildren(r, d, ins, subgroups_loaded) ==
    IF r.err # "" THEN [d |-> d, rest |-> ins, err |-> "ModError"]
    ELSE Nested_load_rec_group([d EXCEPT !.infos = r.g], Tail(ins),
             subgroups_loaded \cup {Head(ins).groupType})

Nested_load_rec_group(d, ins, subgroups_loaded) ==
    IF ins = <<>> THEN [d |-> d, rest |-> ins, err |-> ""]
    ELSE IF Head(ins).sig = "DIAL" THEN [d |-> d, rest |-> ins, err |-> ""]
    ELSE IF \/ Head(ins).sig # "GRUP"
            \/ Head(ins).groupType \in subgroups_loaded
            \/ Head(ins).groupType # 7
            \* _ChildrenGrup.__init__
            \/ Head(ins).label # d.dial.fid
    THEN [d |-> d, rest |-> ins, err |-> "ModError"]
    ELSE NestedChildren(MobObjects_load_rec_group(children_mob(<<>>),
                            Head(ins).body, {"INFO"}),
                        d, ins, subgroups_loaded)

\* MobObjects._load_rec_group of the DIAL top group: [g, err]
RECURSIVE DialsLoadLoop(_, _)

\* ... after MobDial(loadFactory, ins) returned r: setRecord(_loading=True)
DialsBlock(r, gr) ==
    IF r.err # "" \/ HasKey(gr.recs, r.d.fid)
    THEN [g |-> gr, err |-> "ModError"]
    ELSE DialsLoadLoop([gr EXCEPT !.recs = Append(@, r.d)], r.rest)

DialsLoadLoop(gr, ins) ==
    IF ins = <<>> THEN [g |-> setChanged(gr, TRUE), err |-> ""]
    ELSE IF Head(ins).sig # "DIAL" THEN [g |-> gr, err |-> "ModError"]
    ELSE DialsBlock(Nested_load_rec_group(
                        MobDial(Head(ins).rec.fid, Head(ins).rec,
                                children_mob(<<>>), TRUE), Tail(ins), {}),
                    gr)

\* MobDials(header, loadFactory, ins, do_unpack=True): [g, err]
MobDials_load(ins) ==
    DialsLoadLoop(Mob("MobDials", FALSE, 0, <<>>, FALSE, <<>>), ins)

\* MobCell.updateMasters: [masters, err]; self.cell.updateMasters raises
\* AttributeError when the block holds no cell
MobCell_updateMasters(c) ==
    IF c.cell = None THEN [masters |-> {}, err |-> "AttributeError"]
    ELSE [masters |->
              RecMasters(c.cell)
              \cup SeqMasters(c.persistent_refs \o c.distant_refs
                              \o c.temp_refs)
              \cup (IF c.land # None THEN RecMasters(c.land) ELSE {})
              \cup (IF c.pgrd # None THEN RecMasters(c.pgrd) ELSE {}),
          err |-> ""]

\* MobCell.updateRecords, the loop over one reference list: [dest, ids]
RECURSIVE UpdateRefsLoop(_, _, _)
UpdateRefsLoop(src_rec_list, self_rec_list, ids) ==
    IF src_rec_list = <<>> THEN [dest |-> self_rec_list, ids |-> ids]
    ELSE IF ~Head(src_rec_list).ignored
            /\ HasKey(self_rec_list, Head(src_rec_list).fid)
    THEN UpdateRefsLoop(Tail(src_rec_list),
             [self_rec_list EXCEPT
                 ![LastIndexOf(self_rec_list, Head(src_rec_list).fid)] =
                     getTypeCopy(Head(src_rec_list))],
             ids \ {Head(src_rec_list).fid})
    ELSE UpdateRefsLoop(Tail(src_rec_list), self_rec_list, ids)

\* MobCell.updateRecords, the loop over the three reference lists
RECURSIVE UpdateListsLoop(_, _, _, _)

UpdateListsNext(r, attrs, d, srcBlock) ==
    UpdateListsLoop(Tail(attrs), [d EXCEPT ![Head(attrs)] = r.dest], srcBlock,
                    r.ids)

UpdateListsLoop(attrs, d, srcBlock, ids) ==
    IF attrs = <<>> THEN [d |-> d, ids |-> ids]
    ELSE UpdateListsNext(UpdateRefsLoop(srcBlock[Head(attrs)], d[Head(attrs)],
                                        ids),
                         attrs, d, srcBlock)

\* MobCell.updateRecords, the loop over cell, pgrd and land: a slot is
\* updated only when both blocks hold it
RECURSIVE UpdateSlotsLoop(_, _, _, _)
UpdateSlotsLoop(attrs, d, srcBlock, ids) ==
    IF attrs = <<>> THEN [d |-> d, ids |-> ids]
    ELSE IF d[Head(attrs)] # None /\ srcBlock[Head(attrs)] # None
            /\ ~srcBlock[Head(attrs)].ignored
    THEN UpdateSlotsLoop(Tail(attrs),
             [d EXCEPT ![Head(attrs)] = getTypeCopy(srcBlock[Head(attrs)])],
             srcBlock, ids \ {srcBlock[Head(attrs)].fid})
    ELSE UpdateSlotsLoop(Tail(attrs), d, srcBlock, ids)

\* ... the lists after the slots a = [d, ids]
UpdateLists(a, srcBlock) ==
    UpdateListsLoop(<<"persistent_refs", "temp_refs", "distant_refs">>, a.d,
                    srcBlock, a.ids)

\* MobCell.updateRecords: [d, ids]
MobCell_updateRecords(d, srcBlock, ids) ==
    UpdateLists(UpdateSlotsLoop(<<"cell", "pgrd", "land">>, d, srcBlock, ids),
                srcBlock)

\* MobCells.merge_records: the loop over block.id_cellBlock,
\* [cells, srcs, filtered, ids, err]; srcs holds the source blocks (merged
\* ones changed in place), filtered is filtered_cell_blocks
RECURSIVE CellsMergeLoop(_, _, _, _, _, _, _, _)

\* ... the source block was filtered out or IIM skips the merge: remove_cell
\* of a newly added block, then continue
CellsSkip(i, cells, dest, was_newly_added, srcs, filtered, ids, loadSet, iiSkipMerge, doFilter) ==
    IF ~was_newly_added
    THEN CellsMergeLoop(i + 1, cells, srcs, filtered, ids, loadSet,
                        iiSkipMerge, doFilter)
    ELSE IF dest.cell = None
    THEN [cells |-> cells, srcs |-> srcs, filtered |-> filtered, ids |-> ids,
          err |-> "AttributeError"]
    ELSE IF ~HasKey(cells, dest.cell.fid)
    THEN [cells |-> cells, srcs |-> srcs, filtered |-> filtered, ids |-> ids,
          err |-> "KeyError"]
    ELSE CellsMergeLoop(i + 1, DictDel(cells, dest.cell.fid), srcs, filtered,
                        ids, loadSet, iiSkipMerge, doFilter)

\* ... after the merge m of source block i was delegated to the destination
\* block held under the source's key
CellsMerged(m, i, cells, was_newly_added, srcs, filtered, loadSet, iiSkipMerge, doFilter) ==
    IF iiSkipMerge
    THEN CellsSkip(i, DictSet(cells, [fid |-> srcs[i].fid, blk |-> m.g]), m.g,
                   was_newly_added, [srcs EXCEPT ![i].blk = m.s], filtered,
                   m.ids, loadSet, iiSkipMerge, doFilter)
    ELSE IF doFilter /\ MobCell_updateMasters(m.s).err # ""
    THEN [cells |-> DictSet(cells, [fid |-> srcs[i].fid, blk |-> m.g]),
          srcs |-> [srcs EXCEPT ![i].blk = m.s], filtered |-> filtered,
          ids |-> m.ids, err |-> MobCell_updateMasters(m.s).err]
    ELSE IF doFilter /\ ~(MobCell_updateMasters(m.s).masters \subseteq loadSet)
    THEN CellsSkip(i, DictSet(cells, [fid |-> srcs[i].fid, blk |-> m.g]), m.g,
                   was_newly_added, [srcs EXCEPT ![i].blk = m.s], filtered,
                   m.ids, loadSet, iiSkipMerge, doFilter)
    ELSE CellsMergeLoop(i + 1,
             DictSet(cells, [fid |-> srcs[i].fid, blk |-> m.g]),
             [srcs EXCEPT ![i].blk = m.s],
             DictSet(filtered, [fid |-> srcs[i].fid, blk |-> m.s]),
             m.ids, loadSet, iiSkipMerge, doFilter)

\* ... with the destination block present in cells
CellsDelegate(i, cells, was_newly_added, srcs, filtered, ids, loadSet, iiSkipMerge, doFilter) ==
    CellsMerged(MobCell_merge_records(DictGet(cells, srcs[i].fid).blk,
                                      srcs[i].blk, loadSet, ids, iiSkipMerge,
                                      doFilter),
                i, cells, was_newly_added, srcs, filtered, loadSet,
                iiSkipMerge, doFilter)

CellsMergeLoop(i, cells, srcs, filtered, ids, loadSet, iiSkipMerge, doFilter) ==
    IF i > Len(srcs)
    THEN [cells |-> cells, srcs |-> srcs, filtered |-> filtered, ids |-> ids,
          err |-> ""]
    ELSE IF ~HasKey(cells, srcs[i].fid)
    THEN CellsDelegate(i,
                       MobCells_setCell(cells, srcs[i].blk.cell, <<>>, FALSE,
                                        FALSE).cells,
                       TRUE, srcs, filtered, ids, loadSet, iiSkipMerge,
                       doFilter)
    ELSE CellsDelegate(i, cells, FALSE, srcs, filtered, ids, loadSet,
                       iiSkipMerge, doFilter)

\* block.id_cellBlock = filtered_cell_blocks is reached only without an error
CellsMergeEnd(r) ==
    [cells |-> r.cells, srcs |-> IF r.err = "" THEN r.filtered ELSE r.srcs,
     ids |-> r.ids, err |-> r.err]

\* MobCells.merge_records on id_cellBlock: [cells, srcs, ids, err]
MobCells_merge_records(cells, srcs, loadSet, ids, iiSkipMerge, doFilter) ==
    CellsMergeEnd(CellsMergeLoop(1, cells, srcs, <<>>, ids, loadSet,
                                 iiSkipMerge, doFilter))

\* MobCells.updateRecords on id_cellBlock: [cells, ids]
RECURSIVE CellsUpdateLoop(_, _, _)

CellsUpdated(u, srcs, cells) ==
    CellsUpdateLoop(Tail(srcs),
                    DictSet(cells, [fid |-> Head(srcs).fid, blk |-> u.d]),
                    u.ids)

CellsUpdateLoop(srcs, cells, ids) ==
    IF srcs = <<>> THEN [cells |-> cells, ids |-> ids]
    ELSE IF ~HasKey(cells, Head(srcs).fid)
    THEN CellsUpdateLoop(Tail(srcs), cells, ids)
    ELSE CellsUpdated(MobCell_updateRecords(DictGet(cells, Head(srcs).fid).blk,
                                            Head(srcs).blk, ids),
                      srcs, cells)

MobCells_updateRecords(cells, srcs, ids) == CellsUpdateLoop(srcs, cells, ids)

\* MobWorld.merge_records, first loop: the world and road attributes,
\* [d, sb, ids, err]; a destination record of another key raises
\* ModFidMismatchError
RECURSIVE WorldSlotsLoop(_, _, _, _, _, _, _)

\* ... the source record src_rec is present, not ignored and already filtered
WorldSlot(src_rec, attrs, d, sb, ids, loadSet, iiSkipMerge, doFilter) ==
    IF doFilter /\ ~(RecMasters(src_rec) \subseteq loadSet)
    THEN WorldSlotsLoop(Tail(attrs), d, [sb EXCEPT ![Head(attrs)] = None], ids,
                        loadSet, iiSkipMerge, doFilter)
    ELSE IF iiSkipMerge
    THEN WorldSlotsLoop(Tail(attrs), d, [sb EXCEPT ![Head(attrs)] = src_rec],
                        ids, loadSet, iiSkipMerge, doFilter)
    ELSE IF d[Head(attrs)] # None /\ d[Head(attrs)].fid # src_rec.fid
    THEN [d |-> d, sb |-> [sb EXCEPT ![Head(attrs)] = src_rec], ids |-> ids,
          err |-> "ModFidMismatchError"]
    ELSE WorldSlotsLoop(Tail(attrs),
                        [d EXCEPT ![Head(attrs)] = getTypeCopy(src_rec)],
                        [sb EXCEPT ![Head(attrs)] = src_rec],
                        ids \cup {src_rec.fid}, loadSet, iiSkipMerge,
                        doFilter)

WorldSlotsLoop(attrs, d, sb, ids, loadSet, iiSkipMerge, doFilter) ==
    IF attrs = <<>> THEN [d |-> d, sb |-> sb, ids |-> ids, err |-> ""]
    ELSE IF sb[Head(attrs)] = None \/ sb[Head(attrs)].ignored
    THEN WorldSlotsLoop(Tail(attrs), d, sb, ids, loadSet, iiSkipMerge,
                        doFilter)
    ELSE WorldSlot(IF doFilter THEN mergeFilter(sb[Head(attrs)], loadSet)
                   ELSE sb[Head(attrs)],
                   attrs, d, sb, ids, loadSet, iiSkipMerge, doFilter)

\* MobWorld.merge_records, the end: super().merge_records on id_cellBlock
\* returned r
WorldCellsMerged(r, d, sb) ==
    [g |-> [d EXCEPT !.cells = r.cells], s |-> [sb EXCEPT !.cells = r.srcs],
     ids |-> r.ids, err |-> r.err]

WorldMergeCells(d, sb, ids, loadSet, iiSkipMerge, doFilter) ==
    WorldCellsMerged(MobCells_merge_records(d.cells, sb.cells, loadSet, ids,
                                            iiSkipMerge, doFilter),
                     d, sb)

\* MobWorld.merge_records, the persistent cell block after its merge m was
\* delegated; self.worldCellBlock.updateMasters raises AttributeError when
\* the destination's block holds no cell
WorldPersistentMerged(m, was_newly_added, d, sb, loadSet, iiSkipMerge, doFilter) ==
    IF iiSkipMerge
    THEN WorldMergeCells(
             [d EXCEPT !.worldCellBlock = IF was_newly_added THEN <<>>
                                          ELSE <<m.g>>],
             [sb EXCEPT !.worldCellBlock = <<m.s>>], m.ids, loadSet,
             iiSkipMerge, doFilter)
    ELSE IF doFilter /\ MobCell_updateMasters(m.g).err # ""
    THEN [g |-> [d EXCEPT !.worldCellBlock = <<m.g>>],
          s |-> [sb EXCEPT !.worldCellBlock = <<m.s>>], ids |-> m.ids,
          err |-> MobCell_updateMasters(m.g).err]
    ELSE WorldMergeCells(
             [d EXCEPT !.worldCellBlock =
                 IF doFilter /\ was_newly_added
                    /\ ~(MobCell_updateMasters(m.g).masters \subseteq loadSet)
                 THEN <<>> ELSE <<m.g>>],
             [sb EXCEPT !.worldCellBlock = <<m.s>>], m.ids, loadSet,
             iiSkipMerge, doFilter)

\* MobWorld.merge_records after the loop over world and road returned a
WorldSlotsMerged(a, loadSet, iiSkipMerge, doFilter) ==
    IF a.err # "" THEN [g |-> a.d, s |-> a.sb, ids |-> a.ids, err |-> a.err]
    ELSE IF a.sb.worldCellBlock = <<>>
    THEN WorldMergeCells(a.d, a.sb, a.ids, loadSet, iiSkipMerge, doFilter)
    ELSE WorldPersistentMerged(
             MobCell_merge_records(
                 IF a.d.worldCellBlock = <<>>
                 THEN MobCell(None, None, None, <<>>, <<>>, <<>>)
                 ELSE a.d.worldCellBlock[1],
                 a.sb.worldCellBlock[1], loadSet, a.ids, iiSkipMerge,
                 doFilter),
             a.d.worldCellBlock = <<>>, a.d, a.sb, loadSet, iiSkipMerge,
             doFilter)

\* MobWorld.merge_records: [g, s, ids, err]
MobWorld_merge_records(d, block, loadSet, ids, iiSkipMerge, doFilter) ==
    WorldSlotsMerged(WorldSlotsLoop(<<"world", "road">>, d, block, ids,
                                    loadSet, iiSkipMerge, doFilter),
                     loadSet, iiSkipMerge, doFilter)

\* MobWorld.updateMasters: [masters, err]
RECURSIVE CellsMasters(_)
CellsMasters(cells) ==
    IF cells = <<>> THEN [masters |-> {}, err |-> ""]
    ELSE [masters |-> MobCell_updateMasters(Head(cells).blk).masters
                      \cup CellsMasters(Tail(cells)).masters,
          err |-> IF MobCell_updateMasters(Head(cells).blk).err # ""
                  THEN MobCell_updateMasters(Head(cells).blk).err
                  ELSE CellsMasters(Tail(cells)).err]

MobWorld_updateMasters(w) ==
    IF w.world = None THEN [masters |-> {}, err |-> "AttributeError"]
    ELSE IF w.worldCellBlock # <<>>
            /\ MobCell_updateMasters(w.worldCellBlock[1]).err # ""
    THEN [masters |-> {}, err |-> "AttributeError"]
    ELSE [masters |->
              RecMasters(w.world)
              \cup (IF w.road # None THEN RecMasters(w.road) ELSE {})
              \cup (IF w.worldCellBlock # <<>>
                    THEN MobCell_updateMasters(w.worldCellBlock[1]).masters
                    ELSE {})
              \cup CellsMasters(w.cells).masters,
          err |-> CellsMasters(w.cells).err]

\* MobWorlds.merge_records: the loop over block.id_worldBlocks,
\* [worlds, srcs, filtered, ids, err]
RECURSIVE WorldsMergeLoop(_, _, _, _, _, _, _, _)

\* ... the source world was filtered out or IIM skips the merge:
\* remove_world of a newly added block, then continue
WorldsSkip(i, worlds, dest, was_newly_added, srcs, filtered, ids, loadSet, iiSkipMerge, doFilter) ==
    IF ~was_newly_added
    THEN WorldsMergeLoop(i + 1, worlds, srcs, filtered, ids, loadSet,
                         iiSkipMerge, doFilter)
    ELSE IF dest.world = None
    THEN [worlds |-> worlds, srcs |-> srcs, filtered |-> filtered,
          ids |-> ids, err |-> "AttributeError"]
    ELSE IF ~HasKey(worlds, dest.world.fid)
    THEN [worlds |-> worlds, srcs |-> srcs, filtered |-> filtered,
          ids |-> ids, err |-> "KeyError"]
    ELSE WorldsMergeLoop(i + 1, DictDel(worlds, dest.world.fid), srcs,
                         filtered, ids, loadSet, iiSkipMerge, doFilter)

\* ... after the merge m of source world i was delegated to the destination
\* block held under the source's key
WorldsMerged(m, i, worlds, was_newly_added, srcs, filtered, loadSet, iiSkipMerge, doFilter) ==
    IF m.err # ""
    THEN [worlds |-> DictSet(worlds, m.g), srcs |-> [srcs EXCEPT ![i] = m.s],
          filtered |-> filtered, ids |-> m.ids, err |-> m.err]
    ELSE IF iiSkipMerge
    THEN WorldsSkip(i, DictSet(worlds, m.g), m.g, was_newly_added,
                    [srcs EXCEPT ![i] = m.s], filtered, m.ids, loadSet,
                    iiSkipMerge, doFilter)
    ELSE IF doFilter /\ MobWorld_updateMasters(m.s).err # ""
    THEN [worlds |-> DictSet(worlds, m.g), srcs |-> [srcs EXCEPT ![i] = m.s],
          filtered |-> filtered, ids |-> m.ids,
          err |-> MobWorld_updateMasters(m.s).err]
    ELSE IF doFilter /\ ~(MobWorld_updateMasters(m.s).masters \subseteq loadSet)
    THEN WorldsSkip(i, DictSet(worlds, m.g), m.g, was_newly_added,
                    [srcs EXCEPT ![i] = m.s], filtered, m.ids, loadSet,
                    iiSkipMerge, doFilter)
    ELSE WorldsMergeLoop(i + 1, DictSet(worlds, m.g),
                         [srcs EXCEPT ![i] = m.s], DictSet(filtered, m.s),
                         m.ids, loadSet, iiSkipMerge, doFilter)

\* ... with the destination block present in worlds
WorldsDelegate(i, worlds, was_newly_added, srcs, filtered, ids, loadSet, iiSkipMerge, doFilter) ==
    WorldsMerged(MobWorld_merge_records(DictGet(worlds, srcs[i].fid), srcs[i],
                                        loadSet, ids, iiSkipMerge, doFilter),
                 i, worlds, was_newly_added, srcs, filtered, loadSet,
                 iiSkipMerge, doFilter)

WorldsMergeLoop(i, worlds, srcs, filtered, ids, loadSet, iiSkipMerge, doFilter) ==
    IF i > Len(srcs)
    THEN [worlds |-> worlds, srcs |-> srcs, filtered |-> filtered,
          ids |-> ids, err |-> ""]
    ELSE IF ~HasKey(worlds, srcs[i].fid)
    THEN WorldsDelegate(i, MobWorlds_setWorld(worlds, srcs[i].world), TRUE,
                        srcs, filtered, ids, loadSet, iiSkipMerge, doFilter)
    ELSE WorldsDelegate(i, worlds, FALSE, srcs, filtered, ids, loadSet,
                        iiSkipMerge, doFilter)

\* block.id_worldBlocks = filtered_world_blocks is reached only without an
\* error
WorldsMergeEnd(r, gr, block) ==
    [g |-> [gr EXCEPT !.recs = r.worlds],
     s |-> [block EXCEPT !.recs = IF r.err = "" THEN r.filtered ELSE r.srcs],
     ids |-> r.ids, err |-> r.err]

\* MobWorlds.merge_records: [g, s, ids, err]
MobWorlds_merge_records(gr, block, loadSet, ids, iiSkipMerge, doFilter) ==
    WorldsMergeEnd(WorldsMergeLoop(1, gr.recs, block.recs, <<>>, ids, loadSet,
                                   iiSkipMerge, doFilter),
                   gr, block)

\* MobWorld.updateRecords, the loop over world and road: [d, ids, err]
RECURSIVE WorldUpdateSlots(_, _, _, _)
WorldUpdateSlots(attrs, d, srcBlock, ids) ==
    IF attrs = <<>> THEN [d |-> d, ids |-> ids, err |-> ""]
    ELSE IF d[Head(attrs)] = None \/ srcBlock[Head(attrs)] = None
    THEN WorldUpdateSlots(Tail(attrs), d, srcBlock, ids)
    ELSE IF d[Head(attrs)].fid # srcBlock[Head(attrs)].fid
    THEN [d |-> d, ids |-> ids, err |-> "ModFidMismatchError"]
    ELSE IF srcBlock[Head(attrs)].ignored
    THEN WorldUpdateSlots(Tail(attrs), d, srcBlock, ids)
    ELSE WorldUpdateSlots(Tail(attrs),
             [d EXCEPT ![Head(attrs)] = getTypeCopy(srcBlock[Head(attrs)])],
             srcBlock, ids \ {srcBlock[Head(attrs)].fid})

\* MobWorld.updateRecords, the end: super().updateRecords returned r
WorldCellsUpdated(r, d) ==
    [d |-> [d EXCEPT !.cells = r.cells], ids |-> r.ids, err |-> ""]

\* ... the persistent cell block was updated with u = [d, ids]
WorldPersistentUpdated(u, d, srcBlock) ==
    WorldCellsUpdated(MobCells_updateRecords(d.cells, srcBlock.cells, u.ids),
                      [d EXCEPT !.worldCellBlock = <<u.d>>])

\* ... the loop over world and road returned a
WorldSlotsUpdated(a, srcBlock) ==
    IF a.err # "" THEN a
    ELSE IF a.d.worldCellBlock # <<>> /\ srcBlock.worldCellBlock # <<>>
    THEN WorldPersistentUpdated(
             MobCell_updateRecords(a.d.worldCellBlock[1],
                                   srcBlock.worldCellBlock[1], a.ids),
             a.d, srcBlock)
    ELSE WorldCellsUpdated(MobCells_updateRecords(a.d.cells, srcBlock.cells,
                                                  a.ids),
                           a.d)

\* MobWorld.updateRecords: [d, ids, err]
MobWorld_updateRecords(d, srcBlock, ids) ==
    WorldSlotsUpdated(WorldUpdateSlots(<<"world", "road">>, d, srcBlock, ids),
                      srcBlock)

\* MobWorlds.updateRecords: [g, ids, err]
RECURSIVE WorldsUpdateLoop(_, _, _)

WorldsUpdated(u, srcs, gr) ==
    IF u.err # ""
    THEN [g |-> [gr EXCEPT !.recs = DictSet(@, u.d)], ids |-> u.ids,
          err |-> u.err]
    ELSE WorldsUpdateLoop(Tail(srcs), [gr EXCEPT !.recs = DictSet(@, u.d)],
                          u.ids)

WorldsUpdateLoop(srcs, gr, ids) ==
    IF srcs = <<>> THEN [g |-> gr, ids |-> ids, err |-> ""]
    ELSE IF ~HasKey(gr.recs, Head(srcs).fid)
    THEN WorldsUpdateLoop(Tail(srcs), gr, ids)
    ELSE WorldsUpdated(MobWorld_updateRecords(DictGet(gr.recs, Head(srcs).fid),
                                              Head(srcs), ids),
                       srcs, gr)

MobWorlds_updateRecords(gr, srcBlock, ids) ==
    WorldsUpdateLoop(srcBlock.recs, gr, ids)

\* keepRecords of a top group: [g, keep]
keepRecords(gr, p_keep_ids) ==
    IF gr.cls = "MobDials" THEN TopComplexGrup_keepRecords(gr, p_keep_ids)
    ELSE IF gr.cls = "MobWorlds" THEN MobWorlds_keepRecords(gr, p_keep_ids)
    ELSE IF gr.cls = "MobICells"
    THEN LET r == MobCells_keepRecords(gr.recs, p_keep_ids)
         IN [g |-> setChanged([gr EXCEPT !.recs = r.cells], TRUE),
             keep |-> r.keep]
    ELSE [g |-> MobObjects_keepRecords(gr, p_keep_ids), keep |-> p_keep_ids]

\* TopComplexGrup.iter_records
RECURSIVE TopComplexGrup_iter_records(_)
TopComplexGrup_iter_records(dials) ==
    IF dials = <<>> THEN <<>>
    ELSE Nested_iter_records(Head(dials))
         \o TopComplexGrup_iter_records(Tail(dials))

\* iter_records of a top group
iter_records(gr) ==
    IF gr.cls = "MobDials" THEN TopComplexGrup_iter_records(gr.recs)
    ELSE IF gr.cls = "MobWorlds" THEN MobWorlds_iter_records(gr.recs)
    ELSE IF gr.cls = "MobICells" THEN MobCells_iter_records(gr.recs)
    ELSE gr.recs

----------------------------------------------------------------------------
(* Operations on one flat group: specification SpecFlat                    *)

NoArg == [ins |-> <<>>, rec |-> None, keep |-> {}, flag |-> FALSE,
          flag2 |-> FALSE, loadSet |-> {}, cls |-> ""]

Snap == [g |-> g, s |-> s, ids |-> mergeIds]

\* A record as read from disk / as handed in by a caller (a newer payload,
\* of a size no record on disk has)
\* The records of the flat scenarios: two different records per key (payload
\* v, of a size of its own); DiskRec is the one a blob holds, NewRec the one
\* callers hand in
PlainRec(k, v) == Rec(k, FALSE, {}, {}, v, k + v * MaxKey, k + v * MaxKey)
DiskRec(k) == PlainRec(k, 0)
NewRec(k) == PlainRec(k, 1)

AcceptedSigs == {"ARMO"}

StreamElems ==
    {[sig |-> "ARMO", rec |-> PlainRec(k, v)] : k \in Keys, v \in {0, 1}}
    \cup {[sig |-> "GRUP", rec |-> None],
          [sig |-> "WEAP", rec |-> DiskRec(1)]}

Streams == UNION {[1..n -> StreamElems] : n \in 0..MaxLoad}

\* What a group is read from: any stream when it is unpacked; the blob of a
\* MobBase, which only tells records from group headers, holds DiskRecs; the
\* blob of a TopGrup, whose methods never look into it, is empty or holds
\* one header
IsBlobElem(e) == e.sig = "GRUP" \/ e.rec.ver = 0

InputStreams(cls, do_unpack, typed) ==
    IF cls = "TopGrup" /\ do_unpack /\ typed THEN Streams
    ELSE IF cls = "TopGrup" THEN {q \in Streams : Len(q) <= 1}
    ELSE {q \in Streams : \A i \in 1..Len(q) : IsBlobElem(q[i])}

Running == err = ""

InitFlat ==
    /\ inBytes = <<>>
    /\ g = empty_mob
    /\ s = empty_mob
    /\ mergeIds = {}
    /\ opn = "init"
    /\ arg = NoArg
    /\ pre = [g |-> empty_mob, s |-> empty_mob, ids |-> {}]
    /\ out = <<>>
    /\ ret = 0
    /\ err = ""

\* A top group is constructed from the stream
Load ==
    /\ opn = "init"
    /\ \E cls \in {"MobBase", "TopGrup"}, do_unpack \in BOOLEAN,
          typed \in BOOLEAN :
       \E ins \in InputStreams(cls, do_unpack, typed) :
          LET r == MobBase_init(cls, ins, do_unpack, typed, AcceptedSigs)
          IN /\ g' = r.g
             /\ err' = r.err
             /\ inBytes' = IF r.g.hasData
                           THEN <<Tok("GRUP", 0, HeaderSize(ins), 0)>>
                                \o StreamToks(ins)
                           ELSE <<>>
             /\ arg' = [NoArg EXCEPT !.ins = ins, !.flag = do_unpack,
                                     !.flag2 = typed, !.cls = cls]
    /\ opn' = "load"
    /\ pre' = Snap
    /\ out' = <<>> /\ ret' = 0
    /\ UNCHANGED <<s, mergeIds>>

\* setChanged() as its callers call it, with the default value
SetChanged ==
    /\ Running /\ opn # "init"
    /\ g' = setChanged(g, TRUE)
    /\ arg' = [NoArg EXCEPT !.flag = TRUE]
    /\ opn' = "setChanged"
    /\ pre' = Snap
    /\ out' = <<>> /\ ret' = 0 /\ err' = ""
    /\ UNCHANGED <<inBytes, s, mergeIds>>

SetRecord ==
    /\ Running /\ opn # "init" /\ g.cls = "TopGrup"
    /\ \E k \in Keys, do_copy \in BOOLEAN :
          LET r == MobObjects_setRecord(g, NewRec(k), do_copy, FALSE)
          IN /\ g' = r.g
             /\ err' = r.err
             /\ arg' = [NoArg EXCEPT !.rec = NewRec(k), !.flag = do_copy]
    /\ opn' = "setRecord"
    /\ pre' = Snap
    /\ out' = <<>> /\ ret' = 0
    /\ UNCHANGED <<inBytes, s, mergeIds>>

KeepRecords ==
    /\ Running /\ opn # "init" /\ g.cls = "TopGrup"
    /\ \E keep \in SUBSET Keys :
          /\ g' = MobObjects_keepRecords(g, keep)
          /\ arg' = [NoArg EXCEPT !.keep = keep]
    /\ opn' = "keepRecords"
    /\ pre' = Snap
    /\ out' = <<>> /\ ret' = 0 /\ err' = ""
    /\ UNCHANGED <<inBytes, s, mergeIds>>

GetSize ==
    /\ Running /\ opn # "init"
    /\ LET r == getSize(g)
       IN /\ ret' = r.ret
          /\ err' = r.err
    /\ opn' = "getSize"
    /\ arg' = NoArg
    /\ pre' = Snap
    /\ out' = <<>>
    /\ UNCHANGED <<inBytes, g, s, mergeIds>>

\* (MobObjects.getNumRecords only refreshes a cache that no method of a
\* MobObjects reads; the count of a blob decides what MobBase.dump writes)
GetNumRecords ==
    /\ Running /\ opn # "init" /\ g.cls = "MobBase"
    /\ \E includeGroups \in BOOLEAN :
          LET r == getNumRecords(g, includeGroups)
          IN /\ g' = r.g
             /\ ret' = r.ret
             /\ err' = r.err
             /\ arg' = [NoArg EXCEPT !.flag = includeGroups]
    /\ opn' = "getNumRecords"
    /\ pre' = Snap
    /\ out' = <<>>
    /\ UNCHANGED <<inBytes, s, mergeIds>>

Dump ==
    /\ Running /\ opn # "init"
    /\ LET r == dump(g)
       IN /\ g' = r.g
          /\ out' = r.out
          /\ err' = r.err
    /\ opn' = "dump"
    /\ arg' = NoArg
    /\ pre' = Snap
    /\ ret' = 0
    /\ UNCHANGED <<inBytes, s, mergeIds>>

NextFlat ==
    \/ Load
    \/ SetChanged
    \/ SetRecord
    \/ KeepRecords
    \/ GetSize
    \/ GetNumRecords
    \/ Dump

SpecFlat == InitFlat /\ [][NextFlat]_vars

----------------------------------------------------------------------------
(* Claims about one flat group (SpecFlat)                                  *)

\* The group the last operation started from was kept as a blob and is
\* unchanged
BlobBefore == pre.g.hasData /\ ~pre.g.changed

HasRecTok(data) == \E i \in 1..Len(data) : data[i].t = "REC"

ChangedBefore == pre.g.cls = "TopGrup" /\ pre.g.changed

\* C2: for a changed flat record group the size in the header that dump
\* writes, and the size getSize returns, is the number of bytes dump writes:
\* one header plus, per record, a header and the payload; an empty changed
\* group has size 0 and dump writes nothing.
C2_SizeMatchesDump ==
    /\ (opn = "dump" /\ ChangedBefore) =>
          /\ err = ""
          /\ pre.g.recs = <<>> => out = <<>>
          /\ pre.g.recs # <<>> =>
                /\ out[1].t = "GRUP"
                /\ out[1].sz = ByteLen(out)
                /\ Len(out) = 1 + Len(pre.g.recs)
                /\ ByteLen(out) = rec_header_size * (1 + Len(pre.g.recs))
                      + SumSeq([i \in 1..Len(pre.g.recs) |-> pre.g.recs[i].sz])
    /\ (opn = "getSize" /\ ChangedBefore) =>
          /\ err = ""
          /\ ret = ByteLen(MobObjects_dump(g).out)
          /\ g.recs = <<>> => ret = 0

C2_Witness ==
    /\ opn = "dump" /\ ChangedBefore /\ Len(pre.g.recs) >= 2
    /\ out[1].sz = ByteLen(out)
    /\ \E i, j \in 1..Len(pre.g.recs) : pre.g.recs[i].sz # pre.g.recs[j].sz

\* C3: a changed (parsed) flat record group dumps its records in ascending
\* key order whatever the insertion order, each record exactly once.
C3_DumpSortedByKey ==
    (opn = "dump" /\ ChangedBefore /\ pre.g.recs # <<>>) =>
        LET body == Tail(out)
        IN /\ Len(body) = Len(pre.g.recs)
           /\ \A i \in 1..Len(body) : body[i].t = "REC"
           /\ \A i, j \in 1..Len(body) : i < j => body[i].fid < body[j].fid
           /\ \A i \in 1..Len(pre.g.recs) :
                 \E j \in 1..Len(body) : body[j] = RecDump(pre.g.recs[i])

C3_Witness ==
    /\ opn = "dump" /\ ChangedBefore /\ Len(pre.g.recs) >= 2
    /\ pre.g.recs[1].fid > pre.g.recs[2].fid
    /\ out[2].fid < out[3].fid

\* The first position of the stream at which a key repeats, 0 if none
FirstDup(ins) ==
    LET dups == {j \in 1..Len(ins) :
                    \E i \in 1..(j - 1) : ins[i].rec.fid = ins[j].rec.fid}
    IN IF dups = {} THEN 0 ELSE CHOOSE j \in dups : \A k \in dups : j <= k

UnpackedLoad ==
    opn = "load" /\ arg.cls = "TopGrup" /\ arg.flag /\ arg.flag2

AllAccepted(ins) == \A i \in 1..Len(ins) : ins[i].sig \in AcceptedSigs

\* C4: a record whose key is already present is a fatal error while loading,
\* and the entry already there is not replaced; inserted by a caller (not
\* loading) it is no error and overwrites the entry in place, the number of
\* keys unchanged.
C4_DuplicateKey ==
    /\ (UnpackedLoad /\ AllAccepted(arg.ins) /\ FirstDup(arg.ins) # 0) =>
          LET j == FirstDup(arg.ins)
              i == CHOOSE i \in 1..(j - 1) :
                      arg.ins[i].rec.fid = arg.ins[j].rec.fid
          IN /\ err = "ModError"
             /\ MobObjects_getRecord(g, arg.ins[j].rec.fid) = arg.ins[i].rec
             /\ Len(g.recs) = j - 1
    /\ (UnpackedLoad /\ AllAccepted(arg.ins) /\ FirstDup(arg.ins) = 0) =>
          (err = "" /\ Len(g.recs) = Len(arg.ins))
    /\ opn = "setRecord" =>
          /\ err = ""
          /\ MobObjects_getRecord(g, arg.rec.fid) =
                (IF arg.flag THEN getTypeCopy(arg.rec) ELSE arg.rec)
          /\ HasKey(pre.g.recs, arg.rec.fid) =>
                /\ Len(g.recs) = Len(pre.g.recs)
                /\ \A i \in 1..Len(g.recs) : g.recs[i].fid = pre.g.recs[i].fid
          /\ ~HasKey(pre.g.recs, arg.rec.fid) =>
                Len(g.recs) = Len(pre.g.recs) + 1
          /\ \A i \in 1..Len(pre.g.recs) :
                pre.g.recs[i].fid # arg.rec.fid => g.recs[i] = pre.g.recs[i]

C4_Witness ==
    /\ UnpackedLoad /\ err = "ModError" /\ Len(arg.ins) = 3
    /\ FirstDup(arg.ins) = 3
    /\ arg.ins[1].rec.fid = arg.ins[3].rec.fid
    /\ arg.ins[1].rec # arg.ins[3].rec
    /\ Len(g.recs) = 2 /\ g.recs[1] = arg.ins[1].rec

C4_WitnessOverwrite ==
    /\ opn = "setRecord" /\ err = "" /\ HasKey(pre.g.recs, arg.rec.fid)
    /\ MobObjects_getRecord(pre.g, arg.rec.fid).ver # arg.rec.ver
    /\ MobObjects_getRecord(g, arg.rec.fid).ver = arg.rec.ver

\* C5: keepRecords leaves exactly the records whose key is in the keep set,
\* untouched and in their previous relative order, and sets the dirty flag
\* even when it removes nothing.
C5_KeepRecords ==
    opn = "keepRecords" =>
        /\ err = ""
        /\ g.changed
        /\ SeqKeys(g.recs) = SeqKeys(pre.g.recs) \cap arg.keep
        /\ Len(g.recs) = Cardinality(SeqKeys(g.recs))
        /\ \A i \in 1..Len(g.recs) :
              \E j \in 1..Len(pre.g.recs) : pre.g.recs[j] = g.recs[i]
        /\ \A i, j \in 1..Len(g.recs) : i < j =>
              IndexOf(pre.g.recs, g.recs[i].fid)
                 < IndexOf(pre.g.recs, g.recs[j].fid)

C5_Witness ==
    /\ opn = "keepRecords" /\ ~pre.g.changed /\ g.changed
    /\ pre.g.recs # <<>> /\ g.recs = pre.g.recs

C5_WitnessRemoved ==
    /\ opn = "keepRecords" /\ Len(pre.g.recs) = 2 /\ Len(g.recs) = 1

----------------------------------------------------------------------------
(* Merging and updating flat groups: specification SpecMerge               *)

MaxRecs == 2

LoadSets == {{"Base.esm"}, Masters}

\* The masters a source record references besides the loaded one: none, the
\* other one in a way mergeFilter can drop (soft), or in a way it cannot
MasterKinds == {[hard |-> {}, soft |-> {}],
                [hard |-> {}, soft |-> {"Other.esp"}],
                [hard |-> {"Other.esp"}, soft |-> {}]}

\* The records of a source plugin: object k holds key k, payload 1
SrcRec(k, ign, m) == Rec(k, ign, {"Base.esm"} \cup m.hard, m.soft, 1, k, k)

SrcRecs(k) == {SrcRec(k, ign, m) : ign \in BOOLEAN, m \in MasterKinds}

\* The records of the destination: object MaxFid + k holds key k, payload 0
DestRec(k) == Rec(k, FALSE, {"Base.esm"}, {}, 0, k, MaxFid + k)

\* The sequences of at most n records with distinct keys, the record of key k
\* drawn from pool[k]
RECURSIVE RecSeqs(_, _)
RecSeqs(n, pool) ==
    IF n = 0 THEN {<<>>}
    ELSE LET shorter == RecSeqs(n - 1, pool)
         IN shorter \cup
            {Append(q, r) : q \in {x \in shorter : Len(x) = n - 1},
                            r \in UNION {pool[k] : k \in Keys}}

DistinctKeys(q) == \A i, j \in 1..Len(q) : i # j => q[i].fid # q[j].fid

SrcGroups == {q \in RecSeqs(MaxRecs, [k \in Keys |-> SrcRecs(k)]) :
                 DistinctKeys(q)}

DestGroups == {q \in RecSeqs(MaxRecs, [k \in Keys |-> {DestRec(k)}]) :
                  DistinctKeys(q)}

\* A group as it is after loading with do_unpack
LoadedMob(recs) == Mob("TopGrup", TRUE, 0, <<>>, FALSE, recs)

InitMerge ==
    /\ inBytes = <<>>
    /\ g \in {LoadedMob(q) : q \in DestGroups}
    /\ s \in {LoadedMob(q) : q \in SrcGroups}
    /\ mergeIds = {}
    /\ opn = "init"
    /\ arg = NoArg
    /\ pre = [g |-> empty_mob, s |-> empty_mob, ids |-> {}]
    /\ out = <<>>
    /\ ret = 0
    /\ err = ""

Merge ==
    /\ opn = "init"
    /\ \E loadSet \in LoadSets, iiSkipMerge \in BOOLEAN, doFilter \in BOOLEAN,
          ids \in {{}, {MaxKey}} :
          LET r == MobObjects_merge_records(g, s, loadSet, ids, iiSkipMerge,
                                            doFilter)
          IN /\ g' = r.g
             /\ s' = r.s
             /\ mergeIds' = r.ids
             /\ err' = r.err
             /\ arg' = [NoArg EXCEPT !.loadSet = loadSet, !.flag = doFilter,
                                     !.flag2 = iiSkipMerge]
             /\ pre' = [g |-> g, s |-> s, ids |-> ids]
    /\ opn' = "merge"
    /\ out' = <<>> /\ ret' = 0
    /\ UNCHANGED inBytes

Update ==
    /\ opn = "init"
    /\ \E ids \in {{}, Keys} :
          LET r == MobObjects_updateRecords(g, s, ids)
          IN /\ g' = r.g
             /\ mergeIds' = r.ids
             /\ pre' = [g |-> g, s |-> s, ids |-> ids]
    /\ opn' = "update"
    /\ arg' = NoArg
    /\ out' = <<>> /\ ret' = 0 /\ err' = ""
    /\ UNCHANGED <<inBytes, s>>

NextMerge ==
    \/ Merge
    \/ Update

SpecMerge == InitMerge /\ [][NextMerge]_vars

----------------------------------------------------------------------------
(* Claims about merging and updating flat groups (SpecMerge)               *)

SameContent(a, b) ==
    /\ a.fid = b.fid /\ a.ignored = b.ignored /\ a.hard = b.hard
    /\ a.soft = b.soft /\ a.ver = b.ver /\ a.sz = b.sz

Oids(q) == {q[i].oid : i \in 1..Len(q)}

\* r is a deep copy of the source record a: the same content in an object
\* that is no object of the source
IsCopyOf(r, a) ==
    /\ SameContent(r, a)
    /\ r.oid \notin Oids(pre.s.recs) \cup Oids(s.recs)

PlainMerge == opn = "merge" /\ ~arg.flag /\ ~arg.flag2

\* C6: merge without filter and without IIM: the key of every non-ignored
\* source record is added to the merged ids, and the destination maps it to a
\* deep copy of the source record (another object), overwriting the entry the
\* destination had under that key.
C6_MergeCopies ==
    PlainMerge =>
        /\ err = ""
        /\ \A i \in 1..Len(pre.s.recs) :
              ~pre.s.recs[i].ignored =>
                 /\ pre.s.recs[i].fid \in mergeIds
                 /\ HasKey(g.recs, pre.s.recs[i].fid)
                 /\ IsCopyOf(MobObjects_getRecord(g, pre.s.recs[i].fid),
                             pre.s.recs[i])
        /\ DistinctKeys(g.recs)

C6_Witness ==
    /\ PlainMerge /\ Len(pre.s.recs) = 2 /\ Len(pre.g.recs) >= 1
    /\ \A i \in 1..2 : ~pre.s.recs[i].ignored
    /\ HasKey(pre.g.recs, pre.s.recs[1].fid)
    /\ ~HasKey(pre.g.recs, pre.s.recs[2].fid)
    /\ MobObjects_getRecord(pre.g, pre.s.recs[1].fid).ver = 0
    /\ MobObjects_getRecord(g, pre.s.recs[1].fid).ver = 1
    /\ mergeIds = SeqKeys(pre.s.recs)

\* C10: update of a flat group: a destination entry whose key the source
\* holds with a record that is not ignore-flagged becomes a deep copy of that
\* record and its key leaves the still-need-merging set; every other
\* destination entry is left unchanged and no other key leaves the set.
Updated(k) ==
    /\ HasKey(pre.g.recs, k) /\ HasKey(pre.s.recs, k)
    /\ ~MobObjects_getRecord(pre.s, k).ignored

C10_UpdateFlat ==
    opn = "update" =>
        /\ err = ""
        /\ Len(g.recs) = Len(pre.g.recs)
        /\ \A i \in 1..Len(g.recs) :
              LET k == pre.g.recs[i].fid
              IN /\ g.recs[i].fid = k
                 /\ Updated(k) =>
                       /\ IsCopyOf(g.recs[i], MobObjects_getRecord(pre.s, k))
                       /\ k \notin mergeIds
                 /\ ~Updated(k) => g.recs[i] = pre.g.recs[i]
        /\ \A k \in Keys : ~Updated(k) => (k \in mergeIds <=> k \in pre.ids)
        /\ mergeIds \subseteq pre.ids

C10_Witness ==
    /\ opn = "update" /\ Len(pre.g.recs) = 2 /\ Len(pre.s.recs) = 2
    /\ Updated(pre.g.recs[1].fid) /\ ~Updated(pre.g.recs[2].fid)
    /\ HasKey(pre.s.recs, pre.g.recs[2].fid)
    /\ pre.ids = Keys
    /\ g.recs[1].ver = 1 /\ g.recs[2].ver = 0
    /\ mergeIds = Keys \ {pre.g.recs[1].fid}

----------------------------------------------------------------------------
(* Merging DIAL top groups: specification SpecDial                         *)

MaxDials == 1

NoOther == [hard |-> {}, soft |-> {}]
SoftOther == [hard |-> {}, soft |-> {"Other.esp"}]
HardOther == [hard |-> {"Other.esp"}, soft |-> {}]

\* The key of the INFO a DIAL of key k may hold
InfoKey(k) == MaxKey + k

SrcAnchors(k) == {SrcRec(k, FALSE, NoOther), SrcRec(k, FALSE, SoftOther),
                  SrcRec(k, FALSE, HardOther), SrcRec(k, TRUE, HardOther)}

SrcInfos(k) == {<<>>, <<SrcRec(InfoKey(k), FALSE, NoOther)>>,
                <<SrcRec(InfoKey(k), FALSE, HardOther)>>,
                <<SrcRec(InfoKey(k), TRUE, HardOther)>>}

SrcDials(k) == {MobDial(k, a, children_mob(q), TRUE) :
                   a \in SrcAnchors(k), q \in SrcInfos(k)}

DestDials(k) == {MobDial(k, DestRec(k), children_mob(q), TRUE) :
                    q \in {<<>>, <<DestRec(InfoKey(k))>>}}

SrcDialGroups == {q \in RecSeqs(MaxDials, [k \in Keys |-> SrcDials(k)]) :
                     DistinctKeys(q)}

DestDialGroups == {q \in RecSeqs(MaxDials, [k \in Keys |-> DestDials(k)]) :
                      DistinctKeys(q)}

MobDials(recs) == Mob("MobDials", TRUE, 0, <<>>, FALSE, recs)

InitDial ==
    /\ inBytes = <<>>
    /\ g \in {MobDials(q) : q \in DestDialGroups}
    /\ s \in {MobDials(q) : q \in SrcDialGroups}
    /\ mergeIds = {}
    /\ opn = "init"
    /\ arg = NoArg
    /\ pre = [g |-> empty_mob, s |-> empty_mob, ids |-> {}]
    /\ out = <<>>
    /\ ret = 0
    /\ err = ""

MergeDials ==
    /\ opn = "init"
    /\ \E iiSkipMerge \in BOOLEAN, doFilter \in BOOLEAN :
          LET r == TopComplexGrup_merge_records(g, s, {"Base.esm"}, {},
                                                iiSkipMerge, doFilter)
          IN /\ g' = r.g
             /\ s' = r.s
             /\ mergeIds' = r.ids
             /\ err' = r.err
             /\ arg' = [NoArg EXCEPT !.loadSet = {"Base.esm"},
                                     !.flag = doFilter, !.flag2 = iiSkipMerge]
    /\ pre' = Snap
    /\ opn' = "merge"
    /\ out' = <<>> /\ ret' = 0
    /\ UNCHANGED inBytes

\* updateRecords from the source plugin; after a merge the plugin is read
\* again, so the source is the group as it was before the merge filtered it
UpdateDials ==
    /\ opn \in {"init", "merge"} /\ Running
    /\ LET src == IF opn = "init" THEN s ELSE pre.s
           r == TopComplexGrup_updateRecords(g, src, Keys)
       IN /\ g' = r.g
          /\ s' = src
          /\ mergeIds' = r.ids
          /\ err' = r.err
          /\ pre' = [g |-> g, s |-> src, ids |-> Keys]
    /\ opn' = "update"
    /\ arg' = NoArg
    /\ out' = <<>> /\ ret' = 0
    /\ UNCHANGED inBytes

NextDial ==
    \/ MergeDials
    \/ UpdateDials

SpecDial == InitDial /\ [][NextDial]_vars

----------------------------------------------------------------------------
(* Merging one cell block: specification SpecCell                          *)

MaxRefs == 1

CellFid == MaxKey + 1
PgrdFid == MaxKey + 2
LandFid == MaxKey + 3
PersistentFid == MaxKey + 4
DistantFid == MaxKey + 5

SlotRecs(k) == {SrcRec(k, FALSE, NoOther), SrcRec(k, FALSE, HardOther),
                SrcRec(k, TRUE, HardOther)}

\* A reference is in one list of the source cell only
SrcCells ==
    {x \in {MobCell(c, p, l, t, pr, dr) :
        c \in SlotRecs(CellFid),
        p \in {None} \cup SlotRecs(PgrdFid),
        l \in {None, SrcRec(LandFid, FALSE, NoOther),
               SrcRec(LandFid, TRUE, HardOther)},
        t \in {q \in RecSeqs(MaxRefs, [k \in Keys |-> SlotRecs(k)]) :
                  DistinctKeys(q)},
        pr \in {<<>>, <<SrcRec(PersistentFid, FALSE, SoftOther)>>,
                <<SrcRec(1, FALSE, NoOther)>>},
        dr \in {<<>>, <<SrcRec(DistantFid, FALSE, HardOther)>>}} :
     DistinctKeys(x.temp_refs \o x.persistent_refs)}

DestCells ==
    {MobCell(DestRec(CellFid), p, None, t, <<>>, <<>>) :
        p \in {None, DestRec(PgrdFid)},
        t \in {<<>>, <<DestRec(1)>>}}

InitCell ==
    /\ inBytes = <<>>
    /\ g \in DestCells
    /\ s \in SrcCells
    /\ mergeIds = {}
    /\ opn = "init"
    /\ arg = NoArg
    /\ pre = [g |-> empty_mob, s |-> empty_mob, ids |-> {}]
    /\ out = <<>>
    /\ ret = 0
    /\ err = ""

MergeCell ==
    /\ opn = "init"
    /\ \E iiSkipMerge \in BOOLEAN, doFilter \in BOOLEAN :
          LET r == MobCell_merge_records(g, s, {"Base.esm"}, {}, iiSkipMerge,
                                         doFilter)
          IN /\ g' = r.g
             /\ s' = r.s
             /\ mergeIds' = r.ids
             /\ err' = r.err
             /\ arg' = [NoArg EXCEPT !.loadSet = {"Base.esm"},
                                     !.flag = doFilter, !.flag2 = iiSkipMerge]
    /\ pre' = Snap
    /\ opn' = "merge"
    /\ out' = <<>> /\ ret' = 0
    /\ UNCHANGED inBytes

NextCell == MergeCell

SpecCell == InitCell /\ [][NextCell]_vars

----------------------------------------------------------------------------
(* Claims about merging composites                                         *)

\* C7: IIM mode: a merge_records call with iiSkipMerge true, with or without
\* filtering, leaves the destination tree as it was before the call and does
\* not change the merged ids.
C7_IIMLeavesDestination ==
    (opn = "merge" /\ arg.flag2) => (g = pre.g /\ mergeIds = pre.ids)

\* The anchor of the source composite c does not pass the filter
AnchorFilteredOut(c, loadSet) ==
    /\ ~c.dial.ignored
    /\ ~(RecMasters(mergeFilter(c.dial, loadSet)) \subseteq loadSet)

FilteredMerge == opn = "merge" /\ arg.flag

\* C8: filter subset invariant: after merge_records with doFilter true every
\* record still in the source container references only masters of loadSet,
\* and no key of a record that references another master was added to the
\* merged ids.
C8_FilterSubset ==
    FilteredMerge =>
        /\ SeqMasters(MobCell_iter_records(s)) \subseteq arg.loadSet
        /\ \A i \in 1..Len(MobCell_iter_records(pre.s)) :
              LET r == MobCell_iter_records(pre.s)[i]
              IN ~(RecMasters(mergeFilter(r, arg.loadSet))
                      \subseteq arg.loadSet)
                 => r.fid \notin mergeIds

\* C9: when a filtered merge filters out the anchor of a source composite,
\* the merge does not raise and the destination's mapping holds no composite
\* without an anchor afterwards.
C9_FilteredAnchorRetracted ==
    (FilteredMerge
        /\ \E i \in 1..Len(pre.s.recs) :
              AnchorFilteredOut(pre.s.recs[i], arg.loadSet))
    => /\ err = ""
       /\ \A i \in 1..Len(g.recs) : g.recs[i].dial # None

----------------------------------------------------------------------------
(* Claims about updating composites                                        *)

\* The keys of all records in a DIAL top group
DialsKeys(gr) ==
    UNION {SeqKeys(Nested_iter_records(gr.recs[i])) : i \in 1..Len(gr.recs)}

\* C11: update never grows the destination: after updateRecords the set of
\* record keys in the destination equals the set before the call.
C11_UpdateKeepsKeys ==
    opn = "update" => DialsKeys(g) = DialsKeys(pre.g)

----------------------------------------------------------------------------
(* Pruning top groups: specification SpecKeep                              *)

MaxCells == 1

InfoKeys == {InfoKey(k) : k \in Keys}

WorldFid == 2 * MaxKey + 1
RoadFid == 2 * MaxKey + 2
PersCellFid == 2 * MaxKey + 3
PersRefFid == 2 * MaxKey + 4

\* The key of the temporary reference cell k may hold
RefKey(k) == MaxKey + k

\* The cell blocks of cell k as loaded: with or without a temporary reference
LoadedCells(k) ==
    {CellEntry(MobCell(DestRec(k), None, None, t, <<>>, <<>>)) :
        t \in {<<>>, <<DestRec(RefKey(k))>>}}

CellSeqs == {q \in RecSeqs(MaxCells, [k \in Keys |-> LoadedCells(k)]) :
                DistinctKeys(q)}

PersistentBlocks ==
    {<<>>} \cup
    {<<MobCell(DestRec(PersCellFid), None, None, <<>>, pr, <<>>)>> :
        pr \in {<<>>, <<DestRec(PersRefFid)>>}}

LoadedWorlds ==
    {MobWorld(DestRec(WorldFid), road, pc, cells) :
        road \in {None, DestRec(RoadFid)}, pc \in PersistentBlocks,
        cells \in CellSeqs}

MobWorlds(recs) == Mob("MobWorlds", TRUE, 0, <<>>, FALSE, recs)

MobICells(recs) == Mob("MobICells", TRUE, 0, <<>>, FALSE, recs)

KeepGroups ==
    {MobDials(q) : q \in DestDialGroups}
    \cup {MobWorlds(<<w>>) : w \in LoadedWorlds}
    \cup {MobICells(q) : q \in CellSeqs}
    \cup {LoadedMob(q) : q \in DestGroups}

InitKeep ==
    /\ inBytes = <<>>
    /\ g \in KeepGroups
    /\ s = empty_mob
    /\ mergeIds = {}
    /\ opn = "init"
    /\ arg = NoArg
    /\ pre = [g |-> empty_mob, s |-> empty_mob, ids |-> {}]
    /\ out = <<>>
    /\ ret = 0
    /\ err = ""

\* keepRecords of one DIAL block of the group; arg.rec is its master record
KeepDial ==
    /\ opn = "init" /\ g.cls = "MobDials"
    /\ \E i \in 1..Len(g.recs), keep \in SUBSET SeqKeys(iter_records(g)) :
          LET r == ComplexRec_keepRecords(g.recs[i], keep)
          IN /\ g' = [g EXCEPT !.recs[i] = r.c]
             /\ mergeIds' = r.keep
             /\ arg' = [NoArg EXCEPT !.keep = keep, !.rec = g.recs[i].dial]
    /\ opn' = "keepDial"
    /\ pre' = Snap
    /\ out' = <<>> /\ ret' = 0 /\ err' = ""
    /\ UNCHANGED <<inBytes, s>>

\* keepRecords of the top group
KeepTop ==
    /\ opn = "init"
    /\ \E keep \in SUBSET SeqKeys(iter_records(g)) :
          LET r == keepRecords(g, keep)
          IN /\ g' = r.g
             /\ mergeIds' = r.keep
             /\ arg' = [NoArg EXCEPT !.keep = keep]
    /\ opn' = "keepRecords"
    /\ pre' = Snap
    /\ out' = <<>> /\ ret' = 0 /\ err' = ""
    /\ UNCHANGED <<inBytes, s>>

NextKeep ==
    \/ KeepDial
    \/ KeepTop

SpecKeep == InitKeep /\ [][NextKeep]_vars

\* The DIAL block keepRecords was called on, before and after the call
PrunedBefore == DictGet(pre.g.recs, arg.rec.fid)
PrunedAfter == DictGet(g.recs, arg.rec.fid)

\* C12: prune of a DIAL block: the children are pruned by the keep set; the
\* master record is present afterwards if and only if its key was in the
\* keep set or a child survived, and when it is present its key is in the
\* keep set afterwards.
C12_KeepAnchor ==
    opn = "keepDial" =>
        /\ PrunedAfter.infos.recs =
              SelectSeq(PrunedBefore.infos.recs,
                        LAMBDA r : r.fid \in arg.keep)
        /\ PrunedAfter.dial # None
              <=> (arg.rec.fid \in arg.keep \/ PrunedAfter.infos.recs # <<>>)
        /\ PrunedAfter.dial # None => arg.rec.fid \in mergeIds


RecSet(q) == {q[i] : i \in 1..Len(q)}

\* C13: prune monotonicity: for keep sets A and B with A a subset of B, the
\* records remaining after keepRecords(A) are among those remaining after
\* keepRecords(B) on the same initial container.
C13_KeepMonotone ==
    opn = "keepRecords" =>
        \A A \in SUBSET arg.keep :
            RecSet(iter_records(keepRecords(pre.g, A).g))
                \subseteq RecSet(iter_records(g))

C13_Witness ==
    /\ opn = "keepRecords" /\ g.cls = "MobWorlds"
    /\ arg.keep = {RoadFid, RefKey(1)}
    /\ Len(iter_records(pre.g)) > Len(iter_records(g))
    /\ SeqKeys(iter_records(g)) = {WorldFid, RoadFid, 1, RefKey(1)}
    /\ SeqKeys(iter_records(keepRecords(pre.g, {RoadFid}).g))
          = {WorldFid, RoadFid}


EmptyWorld(w) == w.road = None /\ w.worldCellBlock = <<>> /\ w.cells = <<>>

WorldsPruned == opn = "keepRecords" /\ g.cls = "MobWorlds"

\* C14 (as stated): after MobWorlds.keepRecords no world block without road,
\* persistent cell and ordinary cells is in id_worldBlocks.
C14_EmptyWorldAbsent ==
    WorldsPruned => \A i \in 1..Len(g.recs) : ~EmptyWorld(g.recs[i])

\* C14 (amended): after MobWorlds.keepRecords a world block without road,
\* persistent cell and ordinary cells is in id_worldBlocks only if the key
\* of its WRLD record was in the keep set handed in; a world block is present
\* exactly if that key was handed in or a road, a persistent cell or an
\* ordinary cell of it survived.
C14_EmptyWorldOnlyIfKept ==
    WorldsPruned =>
        /\ \A i \in 1..Len(g.recs) :
              EmptyWorld(g.recs[i]) => g.recs[i].fid \in arg.keep
        /\ \A i \in 1..Len(pre.g.recs) :
              LET w == MobWorld_keepRecords(pre.g.recs[i], arg.keep).w
              IN HasKey(g.recs, w.fid)
                    <=> (w.fid \in arg.keep \/ ~EmptyWorld(w))

C14_Witness ==
    /\ WorldsPruned /\ arg.keep = {WorldFid}
    /\ ~EmptyWorld(pre.g.recs[1])
    /\ Len(g.recs) = 1 /\ EmptyWorld(g.recs[1])

----------------------------------------------------------------------------
(* SpecBsb: an interior cells group of cells spread over blocks and        *)
(* sub-blocks is dumped, or its sizes are computed                         *)

MaxDump == 3

DumpKeys == 1..MaxDump

\* The reference records of the cell k
DumpRef(k, j) == Rec(j * MaxDump + k, FALSE, {}, {}, 0, j, j * MaxDump + k)

\* The cell k placed in the block and sub-block its payload v says; the
\* cells of odd key have two temporary references and a persistent one, the
\* others have no children
BsbCells(k) ==
    {CellEntry(MobCell(Rec(k, FALSE, {}, {}, v, k, k), None, None,
                       IF k % 2 = 1 THEN <<DumpRef(k, 3), DumpRef(k, 2)>>
                       ELSE <<>>,
                       IF k % 2 = 1 THEN <<DumpRef(k, 1)>> ELSE <<>>,
                       <<>>)) : v \in 0..2}

\* The id_cellBlock dicts of at most n cells, in every insertion order
RECURSIVE BsbSeqs(_)
BsbSeqs(n) ==
    IF n = 0 THEN {<<>>}
    ELSE LET shorter == BsbSeqs(n - 1)
         IN shorter \cup
            UNION {{Append(q, r) :
                       r \in UNION {BsbCells(k) : k \in DumpKeys \ SeqKeys(q)}} :
                   q \in {x \in shorter : Len(x) = n - 1}}

BsbGroups == BsbSeqs(MaxDump)

InitBsb ==
    /\ inBytes = <<>>
    /\ g \in {MobICells(q) : q \in BsbGroups}
    /\ s = empty_mob
    /\ mergeIds = {}
    /\ opn = "init"
    /\ arg = NoArg
    /\ pre = [g |-> empty_mob, s |-> empty_mob, ids |-> {}]
    /\ out = <<>>
    /\ ret = 0
    /\ err = ""

\* MobICells.dump(out)
DumpCells ==
    /\ opn = "init"
    /\ LET r == MobICells_dump(g)
       IN /\ g' = r.g
          /\ out' = r.out
          /\ err' = r.err
    /\ opn' = "dump"
    /\ arg' = NoArg
    /\ pre' = Snap
    /\ ret' = 0
    /\ UNCHANGED <<inBytes, s, mergeIds>>

\* MobCells.getBsbSizes()
GetBsbSizes ==
    /\ opn = "init"
    /\ ret' = MobCells_getBsbSizes(g.recs)
    /\ opn' = "getBsbSizes"
    /\ arg' = NoArg
    /\ pre' = Snap
    /\ out' = <<>> /\ err' = ""
    /\ UNCHANGED <<inBytes, g, s, mergeIds>>

NextBsb ==
    \/ DumpCells
    \/ GetBsbSizes

SpecBsb == InitBsb /\ [][NextBsb]_vars

\* The positions of the cell records, of the block headers and of the
\* sub-block headers in the output
CellAt(i) == out[i].t = "REC" /\ out[i].fid \in DumpKeys
CellPos == {i \in 1..Len(out) : CellAt(i)}
HeadPos(gt) == {i \in 2..Len(out) : out[i].t = "GRUP" /\ out[i].ver = gt}

\* The (block, sub-block) pairs and the blocks of the dumped cells
DumpedBsbs == {getBsb(pre.g.recs[i].blk.cell) : i \in 1..Len(pre.g.recs)}
DumpedBlocks == {p[1] : p \in DumpedBsbs}

\* (block, sub-block, key) of the cell at i is below that of the cell at j
BsbKeyLess(i, j) ==
    \/ BsbLess(getBsb(out[i]), getBsb(out[j]))
    \/ getBsb(out[i]) = getBsb(out[j]) /\ out[i].fid < out[j].fid

FirstCellOf(P) == CHOOSE i \in CellPos :
    /\ getBsb(out[i]) \in P
    /\ \A j \in CellPos : getBsb(out[j]) \in P => i <= j

\* C15: a dumped cells group writes every cell once, in ascending order of
\* (block, sub-block, key), with exactly one block header per block and one
\* sub-block header per (block, sub-block) pair, each right before the first
\* cell of its bucket
C15_SpatialOrder ==
    opn = "dump" =>
        /\ {out[i].fid : i \in CellPos} = SeqKeys(pre.g.recs)
        /\ Cardinality(CellPos) = Len(pre.g.recs)
        /\ \A i, j \in CellPos : i < j => BsbKeyLess(i, j)
        /\ Cardinality(HeadPos(2)) = Cardinality(DumpedBlocks)
        /\ Cardinality(HeadPos(3)) = Cardinality(DumpedBsbs)
        /\ \A b \in DumpedBlocks :
              LET p == FirstCellOf({x \in DumpedBsbs : x[1] = b})
              IN p - 2 \in HeadPos(2) /\ out[p - 2].fid = b
        /\ \A x \in DumpedBsbs :
              LET p == FirstCellOf({x})
              IN p - 1 \in HeadPos(3) /\ out[p - 1].fid = x[2]

\* Three cells inserted in descending key order, two blocks, one of them with
\* two sub-blocks, were dumped
C15_Witness ==
    /\ opn = "dump"
    /\ Len(pre.g.recs) >= 3
    /\ \A i \in 1..(Len(pre.g.recs) - 1) :
          pre.g.recs[i].fid > pre.g.recs[i + 1].fid
    /\ DumpedBsbs = {<<0, 0>>, <<0, 1>>, <<1, 0>>}
    /\ getBsb(pre.g.recs[1].blk.cell) = <<0, 1>>

\* The last position of the group whose header of type gt is at i: the one
\* before the next header of that or of an enclosing type
GroupEnd(i, gt) ==
    LET nxt == {j \in (i + 1)..Len(out) :
                   out[j].t = "GRUP" /\ out[j].ver \in 2..gt}
    IN IF nxt = {} THEN Len(out)
       ELSE (CHOOSE j \in nxt : \A k \in nxt : j <= k) - 1

RECURSIVE SizeOfCells(_, _)
SizeOfCells(cells, P) ==
    IF cells = <<>> THEN 0
    ELSE (IF getBsb(Head(cells).blk.cell) \in P
          THEN MobCell_getSize(Head(cells).blk) ELSE 0)
         + SizeOfCells(Tail(cells), P)

\* C16: the sizes computed ahead of the dump: a sub-block is its header and
\* its cell blocks, a block its header and its sub-blocks, the total the top
\* header and the blocks; every header written carries the number of bytes
\* written from that header to the end of its group (an empty group writes
\* nothing)
C16_SizesMatchBytes ==
    /\ opn = "getBsbSizes" =>
          /\ DOMAIN ret.bsb_size =
                {getBsb(g.recs[i].blk.cell) : i \in 1..Len(g.recs)}
                \cup {<<getBsb(g.recs[i].blk.cell)[1], NoSub>> :
                         i \in 1..Len(g.recs)}
          /\ \A x \in DOMAIN ret.bsb_size :
                LET P == {y \in DOMAIN ret.bsb_size :
                             /\ y[2] # NoSub
                             /\ y[1] = x[1]
                             /\ x[2] # NoSub => y = x}
                IN ret.bsb_size[x] =
                      (IF x[2] = NoSub THEN rec_header_size ELSE 0)
                      + rec_header_size * Cardinality(P)
                      + SizeOfCells(g.recs, P)
          /\ ret.total =
                rec_header_size
                + rec_header_size * Cardinality(DOMAIN ret.bsb_size)
                + SizeOfCells(g.recs, DOMAIN ret.bsb_size)
    /\ opn = "dump" /\ pre.g.recs # <<>> =>
          /\ out[1].t = "GRUP" /\ out[1].sz = ByteLen(out)
          /\ g.size = ByteLen(out)
          /\ \A gt \in 2..3 : \A i \in HeadPos(gt) :
                out[i].sz = ByteLen(SubSeq(out, i, GroupEnd(i, gt)))

\* A group of two blocks, one with two sub-blocks, and with cells that have
\* children was dumped
C16_Witness ==
    /\ opn = "dump"
    /\ DumpedBsbs = {<<0, 0>>, <<0, 1>>, <<1, 0>>}
    /\ \E i \in HeadPos(6) : out[i].sz > rec_header_size
    /\ \E i \in 1..Len(pre.g.recs) : pre.g.recs[i].blk.temp_refs = <<>>
    /\ getBsb(pre.g.recs[1].blk.cell) = <<1, 0>>


----------------------------------------------------------------------------
(* SpecSort: the INFO children of a DIAL are sorted. Only the equality of  *)
(* keys matters to the sort, so the record at position i of the input has  *)
(* the key i; its PNAM is nothing (0), a record of the group, or a record  *)
(* that is not in the group.                                               *)

MaxInfo == 5

InfoGroups(n) ==
    UNION {{[i \in 1..m |-> Info(i, p[i])] : p \in [1..m -> 0..(n + 1)]} :
           m \in 0..n}

InitSort ==
    /\ inBytes = <<>>
    /\ g \in {children_mob(q) : q \in InfoGroups(MaxInfo)}
    /\ s = empty_mob
    /\ mergeIds = {}
    /\ opn = "init"
    /\ arg = NoArg
    /\ pre = [g |-> empty_mob, s |-> empty_mob, ids |-> {}]
    /\ out = <<>>
    /\ ret = 0
    /\ err = ""

\* _DialChildren._sort_group()
SortGroup ==
    /\ opn = "init"
    /\ g' = [g EXCEPT !.recs = DialChildren_sort_group(g.recs)]
    /\ opn' = "sort_group"
    /\ arg' = NoArg
    /\ pre' = Snap
    /\ out' = <<>> /\ ret' = 0 /\ err' = ""
    /\ UNCHANGED <<inBytes, s, mergeIds>>

NextSort == SortGroup

SpecSort == InitSort /\ [][NextSort]_vars

\* The record of key k has a PNAM chain of n records of the group
RECURSIVE ChainIn(_, _, _)
ChainIn(recs, k, n) ==
    /\ HasKey(recs, k)
    /\ n > 0 => ChainIn(recs, DictGet(recs, k).prev_info, n - 1)

\* No PNAM chain of the group runs into itself
Acyclic(recs) == \A k \in SeqKeys(recs) : ~ChainIn(recs, k, Len(recs))

NoPrev(recs) == SelectSeq(recs, LAMBDA r : r.prev_info = 0)

\* C17: sorting a group with an acyclic PNAM graph keeps the records without
\* PNAM in their input order, starts with one of them, and places every
\* record whose PNAM is a record of the group somewhere after that record
C17_SortedAfterPrev ==
    opn = "sort_group" /\ Acyclic(pre.g.recs) =>
        /\ NoPrev(g.recs) = NoPrev(pre.g.recs)
        /\ NoPrev(g.recs) # <<>> => g.recs[1].prev_info = 0
        /\ \A i \in 1..Len(g.recs) :
              HasKey(g.recs, g.recs[i].prev_info) =>
                  IndexOf(g.recs, g.recs[i].prev_info) < i


----------------------------------------------------------------------------
(* SpecSortLoop: the sort of the INFO children, one iteration of its while *)
(* loop at a time; ret holds sorted_infos, remaining_infos, visited_fids   *)

MaxLoop == 3

InitSortLoop ==
    /\ inBytes = <<>>
    /\ g \in {children_mob(q) : q \in InfoGroups(MaxLoop)}
    /\ s = empty_mob
    /\ mergeIds = {}
    /\ opn = "init"
    /\ arg = NoArg
    /\ pre = [g |-> empty_mob, s |-> empty_mob, ids |-> {}]
    /\ out = <<>>
    /\ ret = SortSplit(<<>>)
    /\ err = ""

\* _sort_group is entered: the records are split
SortBegin ==
    /\ opn = "init"
    /\ ret' = SortSplit(g.recs)
    /\ opn' = "sorting"
    /\ pre' = Snap
    /\ UNCHANGED <<inBytes, g, s, mergeIds, arg, out, err>>

\* while remaining_infos: one iteration
SortIter ==
    /\ opn = "sorting"
    /\ ret.remaining_infos # <<>>
    /\ ret' = SortStep(ret)
    /\ UNCHANGED <<inBytes, g, s, mergeIds, opn, arg, pre, out, err>>

\* the loop is left: id_records is rebuilt
SortEnd ==
    /\ opn = "sorting"
    /\ ret.remaining_infos = <<>>
    /\ g' = [g EXCEPT !.recs = ret.sorted_infos]
    /\ opn' = "sorted"
    /\ UNCHANGED <<inBytes, s, mergeIds, arg, pre, out, ret, err>>

NextSortLoop ==
    \/ SortBegin
    \/ SortIter
    \/ SortEnd

SpecSortLoop ==
    InitSortLoop /\ [][NextSortLoop]_vars /\ WF_vars(NextSortLoop)

\* The record the next iteration pops, and whether it is given up: its PNAM
\* is not among the placed records and it was visited before
Popped == ret.remaining_infos[Len(ret.remaining_infos)]
GivenUp ==
    /\ opn = "sorting"
    /\ ret.remaining_infos # <<>>
    /\ ~HasKey(ret.sorted_infos, Popped.prev_info)
    /\ Popped.fid \in ret.visited_fids

\* C18: the sort of the INFO children ends for every input, with PNAMs that
\* point outside the group or in a circle too, raises nothing, keeps every
\* record once, and a record given up (its PNAM is not among the placed
\* records on its second visit) is put at the end of the placed records
C18_SortTerminates ==
    /\ <>(opn = "sorted")
    /\ [](err = "")
    /\ [](opn = "sorted" =>
            /\ Len(g.recs) = Len(pre.g.recs)
            /\ RecSet(g.recs) = RecSet(pre.g.recs))
    /\ [][GivenUp => ret'.sorted_infos = Append(ret.sorted_infos, Popped)]_vars

\* A group with a PNAM that points outside the group and two records that
\* name each other was sorted, all of them placed at the end
C18_Witness ==
    /\ opn = "sorted"
    /\ \E i, j, k \in 1..Len(pre.g.recs) :
          /\ i # j
          /\ pre.g.recs[i].prev_info = pre.g.recs[j].fid
          /\ pre.g.recs[j].prev_info = pre.g.recs[i].fid
          /\ ~HasKey(pre.g.recs, pre.g.recs[k].prev_info)
          /\ pre.g.recs[k].prev_info # 0
    /\ Len(g.recs) = MaxLoop


----------------------------------------------------------------------------
(* SpecLoad: a DIAL top group, an interior CELL top group or a WRLD top    *)
(* group is read from an input stream in which children groups may follow  *)
(* their anchor record, another anchor record, or none                     *)

MaxIn == 3

\* The labels of the children groups: the keys of the anchors and one more
Labels == 1..(MaxKey + 1)

InRec(k) == Rec(k, FALSE, {}, {}, 0, k, k)

\* The key of the record inside the children group of label l
ChildKey(l) == MaxKey + 1 + l

\* The sequences of at most n of the items
RECURSIVE ItemSeqs(_, _)
ItemSeqs(items, n) ==
    IF n = 0 THEN {<<>>}
    ELSE LET shorter == ItemSeqs(items, n - 1)
         IN shorter \cup
            {Append(q, e) : q \in {x \in shorter : Len(x) = n - 1},
                            e \in items}

\* The headers a stream takes: a children group takes its blob too
RECURSIVE Units(_)
Units(q) == IF q = <<>> THEN 0 ELSE 1 + Head(q).size + Units(Tail(q))

\* A cell children group: empty, or a temporary reference
CellChildren(l) ==
    {GrupIn(l, 6, 0, <<>>),
     GrupIn(l, 6, 2, <<GrupIn(l, 9, 1, <<>>),
                       RecIn("REFR", InRec(ChildKey(l)))>>)}

CellItems ==
    {RecIn("CELL", InRec(k)) : k \in Keys}
    \cup UNION {CellChildren(l) : l \in Labels}

\* The streams of an interior CELL top group: cells and cell children groups
\* inside one block and sub-block; the stream of a single cell also outside
\* of any
CellStreams ==
    {<<GrupIn(0, 2, Units(q) + 1, <<>>), GrupIn(0, 3, Units(q), <<>>)>> \o q :
        q \in ItemSeqs(CellItems, MaxIn)}
    \cup {<<RecIn("CELL", InRec(1))>>}

\* A world children group: empty, or a cell with its children
WorldChildren(l) ==
    {GrupIn(l, 1, 0, <<>>),
     GrupIn(l, 1, 2, <<RecIn("CELL", InRec(ChildKey(l))),
                       GrupIn(ChildKey(l), 6, 0, <<>>)>>)}

WorldItems ==
    {RecIn("WRLD", InRec(k)) : k \in Keys}
    \cup UNION {WorldChildren(l) : l \in Labels}

WorldStreams == ItemSeqs(WorldItems, MaxIn)

DialItems ==
    {RecIn("DIAL", InRec(k)) : k \in Keys}
    \cup {GrupIn(l, 7, 1, <<RecIn("INFO", InRec(ChildKey(l)))>>) : l \in Labels}

DialStreams == ItemSeqs(DialItems, MaxIn)

InitLoad ==
    /\ inBytes = <<>>
    /\ g = empty_mob
    /\ s = empty_mob
    /\ mergeIds = {}
    /\ opn = "init"
    /\ arg = NoArg
    /\ pre = [g |-> empty_mob, s |-> empty_mob, ids |-> {}]
    /\ out = <<>>
    /\ ret = 0
    /\ err = ""

\* MobDials(header, loadFactory, ins, do_unpack=True)
LoadDials ==
    /\ opn = "init"
    /\ \E ins \in DialStreams :
       \E r \in {MobDials_load(ins)} :
          /\ g' = r.g
          /\ err' = r.err
          /\ arg' = [NoArg EXCEPT !.ins = ins, !.flag = TRUE]
    /\ opn' = "loadDials"
    /\ pre' = Snap
    /\ out' = <<>> /\ ret' = 0
    /\ UNCHANGED <<inBytes, s, mergeIds>>

\* MobICells(header, loadFactory, ins, do_unpack=True); flag2 is
\* loadFactory.getUnpackCellBlocks
LoadCells ==
    /\ opn = "init"
    /\ \E ins \in CellStreams, unpack \in BOOLEAN :
       \E r \in {MobICells_load(ins, unpack)} :
          /\ g' = r.g
          /\ err' = r.err
          /\ arg' = [NoArg EXCEPT !.ins = ins, !.flag = TRUE,
                                  !.flag2 = unpack]
    /\ opn' = "loadCells"
    /\ pre' = Snap
    /\ out' = <<>> /\ ret' = 0
    /\ UNCHANGED <<inBytes, s, mergeIds>>

\* MobWorlds(header, loadFactory, ins, do_unpack=True) with cell blocks
\* unpacked; ret is orphansSkipped
LoadWorlds ==
    /\ opn = "init"
    /\ \E ins \in WorldStreams, unpack \in {TRUE} :
       \E r \in {MobWorlds_load(ins, unpack)} :
          /\ g' = r.g
          /\ err' = r.err
          /\ ret' = r.orphans
          /\ arg' = [NoArg EXCEPT !.ins = ins, !.flag = TRUE,
                                  !.flag2 = unpack]
    /\ opn' = "loadWorlds"
    /\ pre' = Snap
    /\ out' = <<>>
    /\ UNCHANGED <<inBytes, s, mergeIds>>

NextLoad ==
    \/ LoadDials
    \/ LoadCells
    \/ LoadWorlds

SpecLoad == InitLoad /\ [][NextLoad]_vars

\* The anchor type and the children group type of the group that was loaded
AnchorSig == IF opn = "loadDials" THEN "DIAL"
             ELSE IF opn = "loadCells" THEN "CELL" ELSE "WRLD"
ChildrenType == IF opn = "loadDials" THEN 7
                ELSE IF opn = "loadCells" THEN 6 ELSE 1

IsAnchor(i) == arg.ins[i].sig = AnchorSig
IsChildren(i) == arg.ins[i].sig = "GRUP" /\ arg.ins[i].groupType = ChildrenType
AnchorKeys == {arg.ins[i].rec.fid : i \in {j \in 1..Len(arg.ins) : IsAnchor(j)}}

\* The children groups whose anchor never appeared, and those that follow an
\* anchor record of another key
Orphans == {i \in 1..Len(arg.ins) :
               IsChildren(i) /\ arg.ins[i].label \notin AnchorKeys}
Mismatched == {i \in 2..Len(arg.ins) :
                  /\ IsChildren(i) /\ IsAnchor(i - 1)
                  /\ arg.ins[i].label # arg.ins[i - 1].rec.fid}

\* Apart from its orphans the stream is in order: no anchor twice, the cells
\* inside a block and sub-block, every other children group right behind its
\* anchor
InOrder ==
    /\ \A i, j \in 1..Len(arg.ins) :
          IsAnchor(i) /\ IsAnchor(j) /\ i # j =>
              arg.ins[i].rec.fid # arg.ins[j].rec.fid
    /\ opn = "loadCells" => Len(arg.ins) > 0 /\ arg.ins[1].groupType = 2
    /\ \A i \in 1..Len(arg.ins) :
          IsChildren(i) /\ i \notin Orphans =>
              /\ i > 1 /\ IsAnchor(i - 1)
              /\ arg.ins[i - 1].rec.fid = arg.ins[i].label

\* The keys of a stream of record headers
BodyKeys(body) ==
    {body[j].rec.fid : j \in {x \in 1..Len(body) : body[x].sig # "GRUP"}}

C20_MismatchRaises ==
    opn \in {"loadDials", "loadCells", "loadWorlds"} /\ Mismatched # {} =>
        /\ err # ""
        /\ \A i \in Mismatched :
              BodyKeys(arg.ins[i].body) \cap SeqKeys(iter_records(g)) = {}



----------------------------------------------------------------------------
(* Merging, updating and pruning WRLD top groups: specification SpecWorld  *)

MaxWorlds == 1

OtherRoadFid == 2 * MaxKey + 5

\* The cell block of a source plugin for the cell record c
SrcCellBlock(c) == MobCell(c, None, None, <<>>, <<>>, <<>>)

\* The persistent cell block of a source world: that of the destination's
\* persistent cell (plain, ignored, filtered out) or that of another cell
SrcPersistentBlocks ==
    {<<>>,
     <<MobCell(SrcRec(PersCellFid, FALSE, NoOther), None, None, <<>>,
               <<SrcRec(PersRefFid, FALSE, NoOther)>>, <<>>)>>,
     <<SrcCellBlock(SrcRec(PersCellFid, TRUE, NoOther))>>,
     <<SrcCellBlock(SrcRec(PersCellFid, FALSE, HardOther))>>,
     <<SrcCellBlock(SrcRec(1, FALSE, NoOther))>>}

\* id_cellBlock of a source world: cell 1 with a temporary reference, or the
\* cell the destination holds as its persistent cell
SrcCellSeqs ==
    {<<>>,
     <<CellEntry(MobCell(SrcRec(1, FALSE, NoOther), None, None,
                         <<SrcRec(RefKey(1), FALSE, NoOther)>>, <<>>, <<>>))>>,
     <<CellEntry(SrcCellBlock(SrcRec(1, FALSE, HardOther)))>>,
     <<CellEntry(SrcCellBlock(SrcRec(PersCellFid, FALSE, NoOther)))>>}

SrcWorlds ==
    {MobWorld(a, road, pc, cells) :
        a \in {SrcRec(WorldFid, FALSE, NoOther),
               SrcRec(WorldFid, FALSE, HardOther),
               SrcRec(WorldFid, TRUE, NoOther)},
        road \in {None, SrcRec(RoadFid, FALSE, NoOther),
                  SrcRec(OtherRoadFid, FALSE, NoOther)},
        pc \in SrcPersistentBlocks, cells \in SrcCellSeqs}

WorldSeqs(n, pool) ==
    {<<>>} \cup (IF n > 0 THEN {<<w>> : w \in pool} ELSE {})

InitWorld ==
    /\ inBytes = <<>>
    /\ g \in {MobWorlds(q) : q \in WorldSeqs(MaxWorlds, LoadedWorlds)}
    /\ s \in {MobWorlds(q) : q \in WorldSeqs(MaxWorlds, SrcWorlds)}
    /\ mergeIds = {}
    /\ opn = "init"
    /\ arg = NoArg
    /\ pre = [g |-> empty_mob, s |-> empty_mob, ids |-> {}]
    /\ out = <<>>
    /\ ret = 0
    /\ err = ""

MergeWorlds ==
    /\ opn = "init"
    /\ \E iiSkipMerge \in BOOLEAN, doFilter \in BOOLEAN :
       \E r \in {MobWorlds_merge_records(g, s, {"Base.esm"}, {}, iiSkipMerge,
                                         doFilter)} :
          /\ g' = r.g
          /\ s' = r.s
          /\ mergeIds' = r.ids
          /\ err' = r.err
          /\ arg' = [NoArg EXCEPT !.loadSet = {"Base.esm"},
                                  !.flag = doFilter, !.flag2 = iiSkipMerge]
    /\ pre' = Snap
    /\ opn' = "merge"
    /\ out' = <<>> /\ ret' = 0
    /\ UNCHANGED inBytes

UpdateWorlds ==
    /\ opn = "init"
    /\ \E r \in {MobWorlds_updateRecords(g, s, SeqKeys(iter_records(g)))} :
          /\ g' = r.g
          /\ mergeIds' = r.ids
          /\ err' = r.err
    /\ pre' = [g |-> g, s |-> s, ids |-> SeqKeys(iter_records(g))]
    /\ opn' = "update"
    /\ arg' = NoArg
    /\ out' = <<>> /\ ret' = 0
    /\ UNCHANGED <<inBytes, s>>

\* keepRecords with nothing or one key to keep
KeepWorlds ==
    /\ opn = "init"
    /\ \E keep \in {{}} \cup {{k} : k \in SeqKeys(iter_records(g))} :
       \E r \in {MobWorlds_keepRecords(g, keep)} :
          /\ g' = r.g
          /\ mergeIds' = r.keep
          /\ arg' = [NoArg EXCEPT !.keep = keep]
    /\ opn' = "keepRecords"
    /\ pre' = Snap
    /\ out' = <<>> /\ ret' = 0 /\ err' = ""
    /\ UNCHANGED <<inBytes, s>>

NextWorld ==
    \/ MergeWorlds
    \/ UpdateWorlds
    \/ KeepWorlds

SpecWorld == InitWorld /\ [][NextWorld]_vars

\* C21: merge_records, updateRecords and keepRecords of successfully parsed
\* containers never raise, whatever the data: a source road or world record
\* of another key than the destination's, and a source persistent cell whose
\* anchor is filtered out or ignored, are handled silently.
C21_NeverRaises ==
    opn \in {"merge", "update", "keepRecords"} => err = ""


----------------------------------------------------------------------------
(* Merging a source into a destination that holds copies of its records:   *)
(* specification SpecIdem                                                  *)

\* The record r as another plugin holds it: the same content, another object
LoadedCopy(r) == IF r = None THEN None ELSE [r EXCEPT !.oid = MaxFid + r.oid]

CopyRecs(q) == [i \in 1..Len(q) |-> LoadedCopy(q[i])]

CopyCell(c) ==
    MobCell(LoadedCopy(c.cell), LoadedCopy(c.pgrd), LoadedCopy(c.land),
            CopyRecs(c.temp_refs), CopyRecs(c.persistent_refs),
            CopyRecs(c.distant_refs))

\* The flat destinations for the source records q: copies of them, alone,
\* or in front of or behind a record of a key the source does not hold
CopyGroups(q) ==
    {CopyRecs(q)}
    \cup {CopyRecs(q) \o <<DestRec(k)>> : k \in Keys \ SeqKeys(q)}
    \cup {<<DestRec(k)>> \o CopyRecs(q) : k \in Keys \ SeqKeys(q)}

InitIdem ==
    /\ inBytes = <<>>
    /\ \/ /\ s \in {LoadedMob(q) : q \in SrcGroups}
          /\ g \in {LoadedMob(q) : q \in CopyGroups(s.recs)}
       \/ /\ s \in SrcCells
          /\ g = CopyCell(s)
    /\ mergeIds = {}
    /\ opn = "init"
    /\ arg = NoArg
    /\ pre = [g |-> empty_mob, s |-> empty_mob, ids |-> {}]
    /\ out = <<>>
    /\ ret = 0
    /\ err = ""

IsCellBlock(x) == "cell" \in DOMAIN x

\* merge_records without filter and outside IIM, then the dump of the
\* destination
MergeCopyFlat ==
    /\ opn = "init" /\ ~IsCellBlock(g)
    /\ \E r \in {MobObjects_merge_records(g, s, Masters, {}, FALSE, FALSE)} :
          /\ g' = r.g
          /\ s' = r.s
          /\ mergeIds' = r.ids
          /\ err' = r.err
          /\ out' = MobObjects_dump(r.g).out
    /\ arg' = [NoArg EXCEPT !.loadSet = Masters]
    /\ pre' = Snap
    /\ opn' = "merge"
    /\ ret' = 0
    /\ UNCHANGED inBytes

MergeCopyCell ==
    /\ opn = "init" /\ IsCellBlock(g)
    /\ \E r \in {MobCell_merge_records(g, s, Masters, {}, FALSE, FALSE)} :
          /\ g' = r.g
          /\ s' = r.s
          /\ mergeIds' = r.ids
          /\ err' = r.err
          /\ out' = MobCell_dump(r.g).out
    /\ arg' = [NoArg EXCEPT !.loadSet = Masters]
    /\ pre' = Snap
    /\ opn' = "merge"
    /\ ret' = 0
    /\ UNCHANGED inBytes

NextIdem ==
    \/ MergeCopyFlat
    \/ MergeCopyCell

SpecIdem == InitIdem /\ [][NextIdem]_vars

\* The records of a flat group or of a cell block
RecsOf(x) == IF IsCellBlock(x) THEN MobCell_iter_records(x) ELSE x.recs

\* The content of a record, whatever object holds it
Content(r) == [r EXCEPT !.oid = 0]

Contents(q) == [i \in 1..Len(q) |-> Content(q[i])]

\* The content of a container, the bucket of every cell reference included
ContentOf(x) ==
    IF IsCellBlock(x)
    THEN <<Content(x.cell), Content(x.pgrd), Content(x.land),
           Contents(x.temp_refs), Contents(x.persistent_refs),
           Contents(x.distant_refs)>>
    ELSE <<Contents(x.recs)>>

DumpOf(x) == IF IsCellBlock(x) THEN MobCell_dump(x).out
             ELSE MobObjects_dump(x).out

\* The destination d holds an identical copy of every record of src
HoldsCopies(d, src) ==
    \A i \in 1..Len(RecsOf(src)) :
        \E j \in 1..Len(RecsOf(d)) :
            Content(RecsOf(d)[j]) = Content(RecsOf(src)[i])

----------------------------------------------------------------------------
(* Claims about dumping a changed group (SpecFlat)                         *)

\* The size of a group holding the records recs: a header, and per record a
\* header and the payload
SizeOfRecs(recs) ==
    rec_header_size * (1 + Len(recs))
    + SumSeq([i \in 1..Len(recs) |-> recs[i].sz])

\* C23: dump of a changed group that no size computation preceded is
\* signalled as an error instead of writing a group header, and no sequence
\* of operations lets dump write a header whose size was not recomputed from
\* the children the group holds after the last mutation of its structure.
C23_DirtyDumpSignaled ==
    /\ [][(opn \in {"load", "setRecord", "keepRecords", "setChanged"}
             /\ g.changed /\ opn' = "dump") => err' # ""]_vars
    /\ []((opn = "dump" /\ err = "" /\ pre.g.recs # <<>>)
             => (out # <<>> /\ out[1].sz = SizeOfRecs(pre.g.recs)))


----------------------------------------------------------------------------
(* SpecSize: a changed DIAL top group computes its size and is dumped. The *)
(* payloads of the records are of 0..MaxPayload bytes; an INFO carries its *)
(* PNAM, which the dump's sort reads.                                      *)

MaxPayload == 2

\* _Nested.getSize: the sizes of the stray records and of the child groups
Nested_getSize(c) ==
    SumSeq([i \in 1..Len(Nested_stray_recs(c)) |-> Nested_stray_recs(c)[i].sz])
    + MobObjects_getSize(c.infos).ret

\* TopComplexGrup.getSize
TopComplexGrup_getSize(gr) ==
    IF ~gr.changed THEN gr.size
    ELSE IF gr.recs = <<>> THEN 0
    ELSE rec_header_size
         + SumSeq([i \in 1..Len(gr.recs) |-> Nested_getSize(gr.recs[i])])

\* MobObjects.dump of a _DialChildren group (its _sort_group is the sort by
\* PNAM): [g, out]
DialChildren_dump(gr) ==
    IF ~gr.changed THEN [g |-> gr, out |-> <<PackHead(gr)>> \o gr.data]
    ELSE IF gr.recs = <<>> THEN [g |-> gr, out |-> <<>>]
    ELSE [g |-> [gr EXCEPT !.recs = DialChildren_sort_group(gr.recs)],
          out |-> <<MobObjects_mob_header(gr)>>
                  \o RecsDump(DialChildren_sort_group(gr.recs))]

\* MobDial.dump, _Nested.dump: the stray records, then the child groups:
\* [c, out]
Nested_dump(c) ==
    [c |-> [c EXCEPT !.infos = DialChildren_dump(c.infos).g],
     out |-> RecsDump(Nested_stray_recs(c)) \o DialChildren_dump(c.infos).out]

RECURSIVE NestedDumps(_)
NestedDumps(recs) ==
    IF recs = <<>> THEN [recs |-> <<>>, out |-> <<>>]
    ELSE [recs |-> <<Nested_dump(Head(recs)).c>>
                   \o NestedDumps(Tail(recs)).recs,
          out |-> Nested_dump(Head(recs)).out \o NestedDumps(Tail(recs)).out]

\* MobObjects.dump of a TopComplexGrup: [g, out]
TopComplexGrup_dump(gr) ==
    IF ~gr.changed THEN [g |-> gr, out |-> <<PackHead(gr)>> \o gr.data]
    ELSE IF gr.recs = <<>> THEN [g |-> gr, out |-> <<>>]
    ELSE [g |-> [gr EXCEPT !.recs = NestedDumps(dict_sort(gr.recs)).recs],
          out |-> <<Tok("GRUP", 0, TopComplexGrup_getSize(gr), 0)>>
                  \o NestedDumps(dict_sort(gr.recs)).out]

SizedInfo(k, p, z) ==
    [fid |-> k, ignored |-> FALSE, hard |-> {}, soft |-> {}, ver |-> 0,
     sz |-> z, oid |-> k, prev_info |-> p]

\* The INFOs of the DIAL k: none, one, or two of which either may name the
\* other as its PNAM
SizedInfos(k) ==
    {<<>>}
    \cup {<<SizedInfo(InfoKey(k), p, z)>> :
             p \in {0, MaxFid}, z \in 1..MaxPayload}
    \cup {<<SizedInfo(InfoKey(k), p, z), SizedInfo(MaxFid, q, z)>> :
             p \in {0, MaxFid}, q \in {0, InfoKey(k)}, z \in 1..MaxPayload}

\* The DIALs of key k: the anchor of 0..MaxPayload bytes, or none
SizedDials(k) ==
    {MobDial(k, a, children_mob(q), TRUE) :
        a \in {None} \cup {Rec(k, FALSE, {}, {}, 0, z, k) : z \in 0..MaxPayload},
        q \in SizedInfos(k)}

InitSize ==
    /\ inBytes = <<>>
    /\ g \in {MobDials(q) :
                q \in {x \in RecSeqs(MaxDials, [k \in Keys |-> SizedDials(k)]) :
                          DistinctKeys(x)}}
    /\ s = empty_mob
    /\ mergeIds = {}
    /\ opn = "init"
    /\ arg = NoArg
    /\ pre = [g |-> empty_mob, s |-> empty_mob, ids |-> {}]
    /\ out = <<>>
    /\ ret = 0
    /\ err = ""

\* MobDials.getSize()
GetSizeDials ==
    /\ opn = "init"
    /\ ret' = TopComplexGrup_getSize(g)
    /\ opn' = "getSize"
    /\ arg' = NoArg
    /\ pre' = Snap
    /\ out' = <<>> /\ err' = ""
    /\ UNCHANGED <<inBytes, g, s, mergeIds>>

\* MobDials.dump(out)
DumpDials ==
    /\ opn \in {"init", "getSize"}
    /\ g' = TopComplexGrup_dump(g).g
    /\ out' = TopComplexGrup_dump(g).out
    /\ opn' = "dump"
    /\ arg' = NoArg
    /\ pre' = Snap
    /\ err' = ""
    /\ UNCHANGED <<inBytes, s, mergeIds, ret>>

NextSize ==
    \/ GetSizeDials
    \/ DumpDials

SpecSize == InitSize /\ [][NextSize]_vars

\* C24: the size in the header that a changed DIAL top group writes is the
\* number of bytes it writes after that header and the header's own: for
\* every DIAL the anchor's header and payload and the whole of each child
\* group that is not empty; the size computed by getSize is the same number
C24_SizeIsBytesDumped ==
    /\ (opn = "getSize" /\ g.recs # <<>>) =>
          ret = rec_header_size + ByteLen(Tail(TopComplexGrup_dump(g).out))
    /\ (opn = "dump" /\ out # <<>>) =>
          /\ out[1].t = "GRUP"
          /\ out[1].sz = ByteLen(out)


----------------------------------------------------------------------------
(* Updating the children of composites: specification SpecDial             *)

\* C25: update reaches the children of composites: for a destination
\* composite and the source composite of the same anchor key, every INFO
\* whose key is in both and whose source copy is not ignore-flagged is
\* replaced by a copy of the source's and its key is not in the set of the
\* records that still need merging, whether or not the source's anchor is
\* ignore-flagged
C25_UpdateRecursive ==
    opn = "update" =>
       \A i \in 1..Len(pre.s.recs) :
          HasKey(pre.g.recs, pre.s.recs[i].fid) =>
             \A j \in 1..Len(pre.s.recs[i].infos.recs) :
                LET k == pre.s.recs[i].fid
                    r == pre.s.recs[i].infos.recs[j]
                IN (~r.ignored
                      /\ HasKey(DictGet(pre.g.recs, k).infos.recs, r.fid))
                   => /\ HasKey(g.recs, k)
                      /\ HasKey(DictGet(g.recs, k).infos.recs, r.fid)
                      /\ DictGet(DictGet(g.recs, k).infos.recs, r.fid)
                            = getTypeCopy(r)
                      /\ r.fid \notin mergeIds


----------------------------------------------------------------------------
(* The frame of a merge into composites: specification SpecDial            *)

\* All records in a DIAL top group
DialsRecs(gr) ==
    UNION {{Nested_iter_records(gr.recs[i])[j] :
               j \in 1..Len(Nested_iter_records(gr.recs[i]))} :
           i \in 1..Len(gr.recs)}

\* C26: a merge never removes and never alters a record of the destination
\* whose key does not occur in the source, and the destination's set of keys
\* after the merge includes its set of keys before it
C26_MergeFrame ==
    opn = "merge" =>
       /\ \A r \in DialsRecs(pre.g) :
             r.fid \notin DialsKeys(pre.s) => r \in DialsRecs(g)
       /\ DialsKeys(pre.g) \subseteq DialsKeys(g)


----------------------------------------------------------------------------
(* The reference lists of a cell after a merge: specification SpecCell     *)

\* C27: after a merge into a cell every reference key occurs at most once
\* across the cell's persistent, temporary and distant lists: a reference
\* that is temporary in the destination and persistent in the source is not
\* in both lists afterwards, and no list holds a key twice
C27_RefKeysOnce ==
    opn = "merge" =>
       DistinctKeys(g.persistent_refs \o g.temp_refs \o g.distant_refs)


----------------------------------------------------------------------------
(* The persistent cell of a world: specification SpecWorld                 *)

\* The key of the world's persistent cell block is not a key of id_cellBlock
PersistentApart(w) ==
    w.worldCellBlock # <<>> =>
       ~HasKey(w.cells, w.worldCellBlock[1].cell.fid)

\* C28: the persistent cell block of a world is never also an entry of the
\* world's ordinary cell mapping: when that holds of the worlds of the source
\* and of the destination before a merge, an update or a prune, it holds of
\* the worlds of the destination after it
C28_PersistentCellApart ==
    (/\ opn \in {"merge", "update", "keepRecords"}
     /\ \A i \in 1..Len(pre.s.recs) : PersistentApart(pre.s.recs[i])
     /\ \A i \in 1..Len(pre.g.recs) : PersistentApart(pre.g.recs[i]))
    => \A i \in 1..Len(g.recs) : PersistentApart(g.recs[i])


----------------------------------------------------------------------------
(* The sort of the INFO children keeps the records: SpecSortLoop           *)

\* The sequence q holds every record of the sequence p once, and nothing else
Permutes(q, p) ==
    /\ Len(q) = Len(p)
    /\ \A i \in 1..Len(p) :
          Cardinality({j \in 1..Len(q) : q[j] = p[i]}) = 1

\* C29: the sort of a DIAL's INFOs is a permutation: whatever the PNAMs are,
\* cyclic or naming records that are not in the group, every record of the
\* group is, once, among the placed or the pending records while the loop
\* runs, and the group holds after the sort the records it held before it,
\* each of them once
C29_SortPermutes ==
    /\ opn = "sorting" =>
          Permutes(ret.sorted_infos \o ret.remaining_infos, pre.g.recs)
    /\ opn = "sorted" => Permutes(g.recs, pre.g.recs)

\* A group with two INFOs that name each other and one that names a record
\* that is not in the group was sorted, and its order changed
C29_Witness ==
    /\ opn = "sorted"
    /\ g.recs # pre.g.recs
    /\ \E i, j \in 1..Len(pre.g.recs) :
          /\ i # j
          /\ pre.g.recs[i].prev_info = pre.g.recs[j].fid
          /\ pre.g.recs[j].prev_info = pre.g.recs[i].fid
    /\ \E k \in 1..Len(pre.g.recs) :
          /\ pre.g.recs[k].prev_info # 0
          /\ ~HasKey(pre.g.recs, pre.g.recs[k].prev_info)


----------------------------------------------------------------------------
(* What a merge leaves in the source: specification SpecMerge              *)

\* The record r of the source goes through a merge with the masters loadSet
Survives(r, loadSet, doFilter) ==
    /\ ~r.ignored
    /\ r.fid # bad_form
    /\ doFilter => RecMasters(mergeFilter(r, loadSet)) \subseteq loadSet

\* C30: after a merge from a flat group the source holds the records it held
\* that were not ignore-flagged, were not the bad form and passed the filter
\* (merge-filtered when the merge filters), in the order the source had them;
\* so without filtering and without ignore-flagged records the source is as
\* it was, and ignore-flagged records leave the source without filtering too
C30_SourceMembership ==
    opn = "merge" =>
       LET kept == SelectSeq(pre.s.recs,
                             LAMBDA r : Survives(r, arg.loadSet, arg.flag))
       IN /\ s.recs = [i \in 1..Len(kept) |->
                          IF arg.flag THEN mergeFilter(kept[i], arg.loadSet)
                          ELSE kept[i]]
          /\ (~arg.flag /\ \A i \in 1..Len(pre.s.recs) :
                              ~pre.s.recs[i].ignored)
             => s.recs = pre.s.recs
          /\ \A i \in 1..Len(pre.s.recs) :
                pre.s.recs[i].ignored => ~HasKey(s.recs, pre.s.recs[i].fid)

\* A merge without filtering from a source of two records out of key order,
\* the first ignore-flagged: the source is left with the second only
C30_Witness ==
    /\ opn = "merge"
    /\ ~arg.flag
    /\ Len(pre.s.recs) = 2
    /\ pre.s.recs[1].fid > pre.s.recs[2].fid
    /\ pre.s.recs[1].ignored
    /\ s.recs = <<pre.s.recs[2]>>

====
